---------------------------- MODULE Spec2Model ----------------------------
(***************************************************************************)
(* A model of pypi_proxy.py: the version resolver, the upstream metadata   *)
(* cache, the synthetic wheel builder and the request router.              *)
(*                                                                         *)
(* Text is modelled character by character: a Python str is a sequence of  *)
(* one-character strings (Chars("2.1.0") = <<"2", ".", "1", ".", "0">>),   *)
(* so that splitting, matching, formatting and parsing are computed as the *)
(* code computes them.  The upstream registry is an input of every step    *)
(* that contacts it: each fetch draws its outcome afresh, which covers an  *)
(* upstream whose data changes between two calls.                          *)
(*                                                                         *)
(* Operators pass intermediate values on as parameters of a next operator  *)
(* (Version -> VersionAfterRelease -> VersionAfterPre ...) instead of      *)
(* naming them in one LET: each step of the code is then one operator.     *)
(***************************************************************************)
EXTENDS Integers, Sequences, FiniteSets, TLC

VARIABLES
    VERSION_CACHE,   \* src/pypi_proxy.py:31  cache key (str) -> version str
    METADATA_CACHE,  \* src/pypi_proxy.py:32  cache key (str) -> metadata record
    ret,             \* the call in progress: its inputs and what it returned
    returned,        \* history: what the resolver returned, call after call
    listed,          \* history: the files the index pages served have linked
    handler,         \* the requests the server has been sent: where each stands
    calls            \* how many calls the process has served

vars == <<VERSION_CACHE, METADATA_CACHE, ret, returned, listed, handler, calls>>

---------------------------------------------------------------------------
(* Bounds of the model.                                                    *)

\* how many requests are sent to the server while it runs
MaxHandlers == 2

\* how many calls one run of the process serves
MaxCalls == 2
\* longest list of releases the upstream advertises in one response
MaxReleases == 2
\* longest requires_dist list of an upstream metadata record
MaxDeps == 2

---------------------------------------------------------------------------
(* Python str and list helpers.                                            *)

Chars(s) == [i \in 1..Len(s) |-> SubSeq(s, i, i)]

\* the empty dict / empty str
Empty == << >>

SetMax(S) == CHOOSE m \in S : \A x \in S : x <= m
SetMin(S) == CHOOSE m \in S : \A x \in S : m <= x

\* all sequences without repetition over S of length at most n
RECURSIVE SeqsUpTo(_, _)
SeqsUpTo(S, n) ==
    IF n = 0 THEN {<< >>}
    ELSE LET shorter == SeqsUpTo(S, n - 1)
             longer  == {Append(q, x) : q \in {r \in shorter : Len(r) = n - 1},
                                        x \in S}
         IN  shorter \cup {q \in longer :
                               \A i, j \in 1..Len(q) : i # j => q[i] # q[j]}

DigitChars == Chars("0123456789")
LowerChars == Chars("abcdefghijklmnopqrstuvwxyz")
UpperChars == Chars("ABCDEFGHIJKLMNOPQRSTUVWXYZ")

Range(q) == {q[i] : i \in 1..Len(q)}
IndexIn(q, c) == CHOOSE i \in 1..Len(q) : q[i] = c

IsDigit(c) == c \in Range(DigitChars)
IsLower(c) == c \in Range(LowerChars)
IsUpper(c) == c \in Range(UpperChars)
IsAlnum(c) == IsDigit(c) \/ IsLower(c) \/ IsUpper(c)
\* \s of the re module, within the characters the model uses
IsSpace(c) == c \in {" ", "\n", "\t"}

\* str.lower()
LowerChar(c) == IF IsUpper(c) THEN LowerChars[IndexIn(UpperChars, c)] ELSE c
Lower(s) == [i \in 1..Len(s) |-> LowerChar(s[i])]

\* str.replace(a, b) for single characters a, b
Replace(s, a, b) == [i \in 1..Len(s) |-> IF s[i] = a THEN b ELSE s[i]]

\* str.startswith / str.endswith
StartsWith(s, p) == Len(p) <= Len(s) /\ SubSeq(s, 1, Len(p)) = p
EndsWith(s, p) ==
    Len(p) <= Len(s) /\ SubSeq(s, Len(s) - Len(p) + 1, Len(s)) = p

\* sub in s: the least position where sub occurs in s, 0 when it does not
Find(s, sub) ==
    LET at == {i \in 1..(Len(s) - Len(sub) + 1) :
                   SubSeq(s, i, i + Len(sub) - 1) = sub}
    IN  IF at = {} THEN 0 ELSE SetMin(at)

Contains(s, sub) == Find(s, sub) # 0

\* int(digits)
RECURSIVE ToInt(_)
ToInt(d) ==
    IF d = << >> THEN 0
    ELSE 10 * ToInt(SubSeq(d, 1, Len(d) - 1)) + (IndexIn(DigitChars, d[Len(d)]) - 1)

\* str(n)
RECURSIVE NatToStr(_)
NatToStr(n) ==
    IF n < 10 THEN <<DigitChars[n + 1]>>
    ELSE Append(NatToStr(n \div 10), DigitChars[(n % 10) + 1])
IntToStr(n) == IF n < 0 THEN <<"-">> \o NatToStr(0 - n) ELSE NatToStr(n)

\* sep.join(parts)
RECURSIVE Join(_, _)
Join(sep, parts) ==
    IF parts = << >> THEN << >>
    ELSE IF Len(parts) = 1 THEN parts[1]
    ELSE parts[1] \o sep \o Join(sep, Tail(parts))

\* s.split(c) for a single character c: the pieces between the occurrences
SplitOn(s, c) ==
    LET cuts == {i \in 1..Len(s) : s[i] = c}
        n    == Cardinality(cuts)
        \* the k-th cut position in increasing order; 0 before, Len+1 after
        cut(k) == IF k = 0 THEN 0
                  ELSE IF k = n + 1 THEN Len(s) + 1
                  ELSE CHOOSE i \in cuts : Cardinality({j \in cuts : j < i}) = k - 1
    IN  [k \in 1..(n + 1) |-> SubSeq(s, cut(k - 1) + 1, cut(k) - 1)]

\* str.strip()
Strip(s) ==
    LET keep == {i \in 1..Len(s) : ~IsSpace(s[i])}
    IN  IF keep = {} THEN << >> ELSE SubSeq(s, SetMin(keep), SetMax(keep))

\* the end of the longest run of digits of s that starts at position i
\* (i - 1 when s[i] is no digit)
DigitsEnd(s, i) ==
    SetMax({j \in (i - 1)..Len(s) : \A k \in i..j : IsDigit(s[k])})

\* a dict as a function: d[key] = value
DictSet(d, key, value) ==
    [k \in (DOMAIN d) \cup {key} |-> IF k = key THEN value ELSE d[k]]

---------------------------------------------------------------------------
(* packaging.version.Version, for the version strings of the model.        *)
(* A parsed version is [release, pre, post, dev]: release a sequence of    *)
(* numbers, pre << >> or <<rank, n>> (a = 0, b = 1, rc = 2), post and dev  *)
(* << >> or <<n>>.  The parser accepts  [v]N(.N)*[{a|b|rc}N][.postN][.devN]*)
(* in any letter case, a sublanguage of PEP 440 that holds every version   *)
(* string of the model; epochs, local versions and the alternative         *)
(* spellings (alpha, c, -rc.1, -1) do not occur in it.                     *)

InvalidVersion == [ok |-> FALSE]

\* the numbers N(.N)* read from position i of s, and the position after them
\* ([ok |-> FALSE] when no digit stands at i)
RECURSIVE ParseRelease(_, _)
ParseReleaseFrom(s, i, e) ==
    IF e < i THEN [ok |-> FALSE]
    ELSE IF e + 2 <= Len(s) /\ s[e + 1] = "." /\ IsDigit(s[e + 2])
    THEN [ok   |-> TRUE,
          nums |-> <<ToInt(SubSeq(s, i, e))>> \o ParseRelease(s, e + 2).nums,
          next |-> ParseRelease(s, e + 2).next]
    ELSE [ok |-> TRUE, nums |-> <<ToInt(SubSeq(s, i, e))>>, next |-> e + 1]
ParseRelease(s, i) == ParseReleaseFrom(s, i, DigitsEnd(s, i))

\* an optional  <word>N  at position i: [found, n, next]
ParseTaggedAt(s, i, word, j) ==
    IF j <= Len(s) /\ SubSeq(s, i, j - 1) = word /\ IsDigit(s[j])
    THEN [found |-> TRUE, n |-> ToInt(SubSeq(s, j, DigitsEnd(s, j))),
          next |-> DigitsEnd(s, j) + 1]
    ELSE [found |-> FALSE, n |-> 0, next |-> i]
ParseTagged(s, i, word) == ParseTaggedAt(s, i, word, i + Len(word))

PreWords == <<Chars("a"), Chars("b"), Chars("rc")>>

\* the pre-release segment at position i: [found, rank, n, next]
PickPre(tries, i) ==
    IF \E k \in 1..3 : tries[k].found
    THEN [found |-> TRUE,
          rank  |-> SetMax({k \in 1..3 : tries[k].found}) - 1,
          n     |-> tries[SetMax({k \in 1..3 : tries[k].found})].n,
          next  |-> tries[SetMax({k \in 1..3 : tries[k].found})].next]
    ELSE [found |-> FALSE, rank |-> 0, n |-> 0, next |-> i]
ParsePre(s, i) == PickPre([k \in 1..3 |-> ParseTagged(s, i, PreWords[k])], i)

VersionAfterDev(t, rel, pre, post, dev) ==
    IF dev.next # Len(t) + 1 THEN InvalidVersion
    ELSE [ok |-> TRUE,
          v  |-> [release |-> rel.nums,
                  pre     |-> IF pre.found THEN <<pre.rank, pre.n>> ELSE << >>,
                  post    |-> IF post.found THEN <<post.n>> ELSE << >>,
                  dev     |-> IF dev.found THEN <<dev.n>> ELSE << >>]]
VersionAfterPost(t, rel, pre, post) ==
    VersionAfterDev(t, rel, pre, post, ParseTagged(t, post.next, Chars(".dev")))
VersionAfterPre(t, rel, pre) ==
    VersionAfterPost(t, rel, pre, ParseTagged(t, pre.next, Chars(".post")))
VersionAfterRelease(t, rel) ==
    IF ~rel.ok THEN InvalidVersion
    ELSE VersionAfterPre(t, rel, ParsePre(t, rel.next))
VersionOfNormalized(t) ==
    VersionAfterRelease(t, ParseRelease(t, IF Len(t) > 0 /\ t[1] = "v" THEN 2 ELSE 1))

\* Version(s): [ok |-> TRUE, v |-> parsed] or InvalidVersion (the exception)
Version(s) == VersionOfNormalized(Lower(Strip(s)))

\* Version.is_prerelease
is_prerelease(v) == v.dev # << >> \/ v.pre # << >>

\* Version.major / Version.minor
major(v) == IF Len(v.release) >= 1 THEN v.release[1] ELSE 0
minor(v) == IF Len(v.release) >= 2 THEN v.release[2] ELSE 0

\* str(Version): the normalized spelling
VersionStr(v) ==
    Join(<<".">>, [i \in 1..Len(v.release) |-> IntToStr(v.release[i])])
    \o (IF v.pre = << >> THEN << >>
        ELSE PreWords[v.pre[1] + 1] \o IntToStr(v.pre[2]))
    \o (IF v.post = << >> THEN << >> ELSE Chars(".post") \o IntToStr(v.post[1]))
    \o (IF v.dev = << >> THEN << >> ELSE Chars(".dev") \o IntToStr(v.dev[1]))

\* Version.base_version
BaseVersion(v) == [release |-> v.release, pre |-> << >>, post |-> << >>, dev |-> << >>]

\* the release with its trailing zeros dropped (packaging's _cmpkey)
StripZeros(r) ==
    IF \A i \in 1..Len(r) : r[i] = 0 THEN << >>
    ELSE SubSeq(r, 1, SetMax({i \in 1..Len(r) : r[i] # 0}))

\* tuple comparison of Python: -1, 0, 1
RECURSIVE CmpSeq(_, _)
CmpSeq(a, b) ==
    IF a = << >> /\ b = << >> THEN 0
    ELSE IF a = << >> THEN -1
    ELSE IF b = << >> THEN 1
    ELSE IF a[1] < b[1] THEN -1
    ELSE IF a[1] > b[1] THEN 1
    ELSE CmpSeq(Tail(a), Tail(b))

\* packaging's _cmpkey after the release, as numbers: a final release stands
\* above its pre-releases (a = 0, b = 1, rc = 2, none = 3), a bare dev release
\* below them, no post below every post, no dev above every dev
CmpTail(v) ==
    (IF v.pre = << >> /\ v.post = << >> /\ v.dev # << >> THEN <<-1, 0>>
     ELSE IF v.pre = << >> THEN <<3, 0>> ELSE v.pre)
    \o <<IF v.post = << >> THEN -1 ELSE v.post[1]>>
    \o (IF v.dev = << >> THEN <<1, 0>> ELSE <<0, v.dev[1]>>)

\* -1, 0, 1 as a < b, a == b, a > b
FirstNonZero(x, y) == IF x # 0 THEN x ELSE y
VersionCmp(a, b) ==
    FirstNonZero(CmpSeq(StripZeros(a.release), StripZeros(b.release)),
                 CmpSeq(CmpTail(a), CmpTail(b)))

\* list.sort(reverse=True): descending and stable (equal versions keep the
\* order they had): x goes after every element that is >= x
InsertAfter(sorted, x, k) ==
    SubSeq(sorted, 1, k) \o <<x>> \o SubSeq(sorted, k + 1, Len(sorted))
InsertDesc(sorted, x) ==
    InsertAfter(sorted, x,
                SetMax({0} \cup {i \in 1..Len(sorted) : VersionCmp(sorted[i], x) >= 0}))
RECURSIVE SortDesc(_)
SortDesc(q) ==
    IF q = << >> THEN << >>
    ELSE InsertDesc(SortDesc(SubSeq(q, 1, Len(q) - 1)), q[Len(q)])

---------------------------------------------------------------------------
(* packaging.specifiers.SpecifierSet, for the constraint strings of the    *)
(* model: comma-separated clauses  <op><version>  with op one of           *)
(* >= <= == != < >.  (~=, === and the .* wildcard do not occur in the      *)
(* model's constraints.)                                                   *)

SpecOps == <<Chars(">="), Chars("<="), Chars("=="), Chars("!="),
             Chars("<"), Chars(">")>>

\* Specifier(clause): [ok, op, version] -- not ok is InvalidSpecifier
SpecifierOf(op, pv) ==
    IF pv.ok THEN [ok |-> TRUE, op |-> op, version |-> pv.v] ELSE [ok |-> FALSE]
SpecifierWithOp(clause, op) ==
    SpecifierOf(op, Version(SubSeq(clause, Len(op) + 1, Len(clause))))
Specifier(clause) ==
    IF \A k \in 1..Len(SpecOps) : ~StartsWith(clause, SpecOps[k])
    THEN [ok |-> FALSE]
    ELSE SpecifierWithOp(clause,
            SpecOps[SetMin({k \in 1..Len(SpecOps) : StartsWith(clause, SpecOps[k])})])

\* SpecifierSet(s): [ok, specs] -- not ok is the InvalidSpecifier exception
SpecifierSetOf(parsed) ==
    IF \E sp \in parsed : ~sp.ok THEN [ok |-> FALSE]
    ELSE [ok |-> TRUE, specs |-> parsed]
Clauses(pieces) == {Strip(pieces[i]) : i \in 1..Len(pieces)} \ {<< >>}
SpecifierSet(s) ==
    SpecifierSetOf({Specifier(c) : c \in Clauses(SplitOn(s, ","))})

\* Specifier.prereleases: the clause itself names a pre-release
SpecifierPrereleases(sp) ==
    sp.op \in {<<"=", "=">>, <<">", "=">>, <<"<", "=">>} /\ is_prerelease(sp.version)

\* SpecifierSet.prereleases, None read as False
SetPrereleases(spec) == \E sp \in spec.specs : SpecifierPrereleases(sp)

\* the operator of one clause applied to version v (Specifier._compare_*);
\* c compares v with the clause's version, cb their base versions
CompareBy(sp, v, c, cb) ==
    CASE sp.op = <<">", "=">> -> c >= 0
      [] sp.op = <<"<", "=">> -> c <= 0
      [] sp.op = <<"=", "=">> -> c = 0
      [] sp.op = <<"!", "=">> -> c # 0
      [] sp.op = <<"<">> ->
            c < 0 /\ ~(~is_prerelease(sp.version) /\ is_prerelease(v) /\ cb = 0)
      [] sp.op = <<">">> ->
            c > 0 /\ ~(sp.version.post = << >> /\ v.post # << >> /\ cb = 0)
Compare(sp, v) ==
    CompareBy(sp, v, VersionCmp(v, sp.version),
              VersionCmp(BaseVersion(v), BaseVersion(sp.version)))

\* SpecifierSet.contains(v, prereleases): a pre-release is refused unless
\* pre-releases are allowed, then every clause must accept v
SpecContains(spec, v, prereleases) ==
    /\ ~(is_prerelease(v) /\ ~prereleases)
    /\ \A sp \in spec.specs : Compare(sp, v)

\* "v in spec": SpecifierSet.__contains__, contains() with prereleases=None,
\* which allows pre-releases only when a clause of the set names one
InSpec(v, spec) == SpecContains(spec, v, SetPrereleases(spec))

---------------------------------------------------------------------------
(* The substitution policy and the version resolver.                       *)

\* the keys of DUMMY_PACKAGES (every directive is 'auto')
DUMMY_PACKAGES == {Chars("torch"), Chars("torchvision"), Chars("torchaudio")}

\* the fallback version the resolver returns when it cannot compute one
FallbackVersion == Chars("99.0.0")

\* fetch_package_info: the JSON document, or None on any exception (transport
\* error, error status, timeout, a body that is no JSON).  up is the outcome
\* of the request: [kind |-> "error"], or [kind |-> "json", mapping, releases]
\* for a JSON body, mapping telling whether its "releases" member is an
\* object (whose keys are releases) or another JSON value such as null
fetch_package_info(up) ==
    IF up.kind = "json" THEN [none |-> FALSE, doc |-> up] ELSE [none |-> TRUE]

\* f"{package_name}:{specifier_str}"
VersionCacheKey(package_name, specifier_str) ==
    package_name \o <<":">> \o specifier_str

\* the versions that parse, in the order advertised (lines 61-66)
KeepParsed(pv) == IF pv.ok THEN <<pv.v>> ELSE << >>
RECURSIVE ParsedVersions(_)
ParsedVersions(versions) ==
    IF versions = << >> THEN << >>
    ELSE KeepParsed(Version(versions[1])) \o ParsedVersions(Tail(versions))

\* what a path through the function yields: the value returned, whether
\* VERSION_CACHE[cache_key] was assigned, whether an exception is in flight
Returned(value, path) ==
    [result |-> value, store |-> FALSE, raised |-> FALSE, path |-> path]
\* (a variant of Stored that leaves VERSION_CACHE alone)
NotStored(value, path) == Returned(value, path)
Stored(value, path) ==
    [result |-> value, store |-> TRUE, raised |-> FALSE, path |-> path]
Raised(path) ==
    [result |-> << >>, store |-> FALSE, raised |-> TRUE, path |-> path]

\* (a variant of ResolveLatest that does not look for a final release)
ResolveLatestAny(parsed_versions, stable) ==
    Stored(VersionStr(parsed_versions[1]), "latest_any")

\* lines 73-81: no constraint; stable are the positions of parsed_versions
\* that hold no pre-release
ResolveLatest(parsed_versions, stable) ==
    IF stable # {} THEN Stored(VersionStr(parsed_versions[SetMin(stable)]), "latest_stable")
    ELSE Stored(VersionStr(parsed_versions[1]), "latest_any")

\* lines 84-98: the three loops; inspec are the positions of parsed_versions
\* with "v in spec"
ResolveTiers(parsed_versions, inspec) ==
    IF \E i \in inspec : ~is_prerelease(parsed_versions[i])
    THEN Stored(VersionStr(parsed_versions[
                    SetMin({i \in inspec : ~is_prerelease(parsed_versions[i])})]),
                "tier1")
    ELSE IF inspec # {}
    THEN Stored(VersionStr(parsed_versions[SetMin(inspec)]), "tier2")
    ELSE Stored(VersionStr(parsed_versions[1]), "tier3")

\* line 83 on: spec = SpecifierSet(specifier_str), which may raise
ResolveWithSpec(parsed_versions, spec) ==
    IF ~spec.ok THEN Raised("invalid_specifier")
    ELSE ResolveTiers(parsed_versions,
                      {i \in 1..Len(parsed_versions) : InSpec(parsed_versions[i], spec)})

\* lines 68-98 with parsed_versions sorted
ResolveSorted(parsed_versions, specifier_str) ==
    IF parsed_versions = << >> THEN Returned(FallbackVersion, "unparseable")
    ELSE IF specifier_str = << >> \/ specifier_str = <<"*">>
    THEN ResolveLatest(parsed_versions,
                       {i \in 1..Len(parsed_versions) : ~is_prerelease(parsed_versions[i])})
    ELSE ResolveWithSpec(parsed_versions, SpecifierSet(specifier_str))

\* the body of the try block, lines 60-98
ResolveTry(versions, specifier_str) ==
    ResolveSorted(SortDesc(ParsedVersions(versions)), specifier_str)

\* "except Exception as e: ... return '99.0.0'", lines 100-102
ResolveExcept(r) ==
    IF r.raised THEN Returned(FallbackVersion, r.path) ELSE r

\* lines 52-102: the cache missed and fetch_package_info returned info.
\* Line 56, info.get('releases', {}).keys(), stands before the try block: on
\* a "releases" member without keys() its AttributeError reaches the caller
ResolveInfo(info, specifier_str) ==
    IF info.none THEN Returned(FallbackVersion, "no_info")
    ELSE IF ~info.doc.mapping THEN Raised("attribute_error")
    ELSE IF info.doc.releases = << >> THEN Returned(FallbackVersion, "no_releases")
    ELSE ResolveExcept(ResolveTry(info.doc.releases, specifier_str))

\* the call's outcome on a cache miss, r being what lines 52-102 yield
ResolveMiss(cache, cache_key, r) ==
    [result |-> r.result, raised |-> r.raised, path |-> r.path, contacted |-> TRUE,
     cache |-> IF r.store THEN DictSet(cache, cache_key, r.result) ELSE cache]

\* lines 48-50: the cache is consulted first
ResolveKeyed(cache, cache_key, specifier_str, up) ==
    IF cache_key \in DOMAIN cache
    THEN [result |-> cache[cache_key], raised |-> FALSE, path |-> "cached",
          contacted |-> FALSE, cache |-> cache]
    ELSE ResolveMiss(cache, cache_key,
                     ResolveInfo(fetch_package_info(up), specifier_str))

\* find_compatible_version(package_name, specifier_str) with the cache as it
\* is and the upstream answering up: [result, raised, path, contacted, cache]
find_compatible_version(cache, package_name, specifier_str, up) ==
    ResolveKeyed(cache, VersionCacheKey(package_name, specifier_str),
                 specifier_str, up)

---------------------------------------------------------------------------
(* Bytes: str.encode('utf-8'), hashlib.sha256, base64.urlsafe_b64encode.   *)
(* A bytes object is a sequence of numbers 0..255.                         *)

\* the grave accent U+0060, which a TLA+ string cannot hold, as one element
\* of a str
Grave == "U+0060"

\* the printable ASCII characters in the order of their codes, from 32 on
AsciiChars ==
    Chars(" !\"#$%&'()*+,-./0123456789:;<=>?@ABCDEFGHIJKLMNOPQRSTUVWXYZ")
    \o Chars("[\\]^_") \o <<Grave>> \o Chars("abcdefghijklmnopqrstuvwxyz{|}~")

\* the UTF-8 bytes of each character of the model: one byte for ASCII, two
\* for the e-acute
Utf8 ==
    [c \in Range(AsciiChars) \cup {"\n", "é"} |->
        IF c = "\n" THEN <<10>>
        ELSE IF c = "é" THEN <<195, 169>>
        ELSE <<IndexIn(AsciiChars, c) + 31>>]

\* str.encode('utf-8')
RECURSIVE Encode(_)
Encode(s) ==
    IF s = << >> THEN << >>
    ELSE IF Len(s) = 1 THEN Utf8[s[1]]
    ELSE Encode(SubSeq(s, 1, Len(s) \div 2))
         \o Encode(SubSeq(s, (Len(s) \div 2) + 1, Len(s)))

\* hashlib.sha256(content).digest(), abstracted to two bytes (a number below
\* 2^16) that depend on every byte of content, on its position and on the
\* length: the sum of position * byte, plus the length
RECURSIVE WeightedSum(_, _, _)
WeightedSum(content, lo, hi) ==
    IF lo > hi THEN 0
    ELSE IF lo = hi THEN (lo * content[lo]) % 65536
    ELSE (WeightedSum(content, lo, (lo + hi) \div 2)
          + WeightedSum(content, ((lo + hi) \div 2) + 1, hi)) % 65536
Sha256(content) == (WeightedSum(content, 1, Len(content)) + Len(content)) % 65536

B64Chars ==
    Chars("ABCDEFGHIJKLMNOPQRSTUVWXYZabcdefghijklmnopqrstuvwxyz0123456789-_")

\* base64.urlsafe_b64encode of the two digest bytes: 16 bits in three
\* characters, and one "=" of padding
UrlsafeB64(digest) ==
    <<B64Chars[(digest \div 1024) + 1],
      B64Chars[((digest \div 16) % 64) + 1],
      B64Chars[((digest % 16) * 4) + 1],
      "=">>

\* s.rstrip(c)
RStrip(s, c) == SubSeq(s, 1, SetMax({0} \cup {i \in 1..Len(s) : s[i] # c}))

\* file_hash_record(content) for content of type bytes, as its one caller
\* passes it (line 345): the pair (f"sha256={hash_b64}", len(content))
file_hash_record(content) ==
    [hash_str |-> Chars("sha256=") \o RStrip(UrlsafeB64(Sha256(content)), "="),
     size     |-> Len(content)]

---------------------------------------------------------------------------
(* get_real_package_metadata.                                              *)

\* the argument version=None
NoVersion == <<"None">>

\* f"{version}"
Str(version) == IF version = NoVersion THEN Chars("None") ELSE version

\* dict.get(key, default)
DictGet(d, key, default) == IF key \in DOMAIN d THEN d[key] ELSE default

\* "x or []" for a JSON member that is a list or null
OrEmptyList(x) == IF x.null THEN << >> ELSE x.list

\* f"meta:{package_name}:{version}"
MetadataCacheKey(package_name, version) ==
    Chars("meta:") \o package_name \o <<":">> \o Str(version)

\* lines 112-115, without the PYPI_INDEX prefix
MetadataUrl(package_name, version) ==
    IF version # NoVersion /\ version # << >>
    THEN Chars("/pypi/") \o package_name \o <<"/">> \o version \o Chars("/json")
    ELSE Chars("/pypi/") \o package_name \o Chars("/json")

\* lines 121-135.  A license is [str |-> TRUE, text |-> ...], or
\* [str |-> FALSE] for a JSON number; requires_dist and classifiers come
\* as [null |-> TRUE] or [null |-> FALSE, list |-> ...]
MetadataResult(info, package_name, version) ==
    [name            |-> DictGet(info, "name", package_name),
     version         |-> DictGet(info, "version",
                                 IF version # NoVersion /\ version # << >>
                                 THEN version ELSE Chars("0.0.0")),
     summary         |-> DictGet(info, "summary", << >>),
     home_page       |-> DictGet(info, "home_page", << >>),
     author          |-> DictGet(info, "author", << >>),
     author_email    |-> DictGet(info, "author_email", << >>),
     license         |-> DictGet(info, "license", [str |-> TRUE, text |-> << >>]),
     requires_python |-> DictGet(info, "requires_python", Chars(">=3.8")),
     requires_dist   |-> OrEmptyList(DictGet(info, "requires_dist",
                                             [null |-> FALSE, list |-> << >>])),
     classifiers     |-> OrEmptyList(DictGet(info, "classifiers",
                                             [null |-> FALSE, list |-> << >>])),
     keywords        |-> DictGet(info, "keywords", << >>),
     description     |-> DictGet(info, "description", << >>),
     description_content_type |->
         DictGet(info, "description_content_type", Chars("text/markdown"))]

\* lines 137-138: METADATA_CACHE[cache_key] = result; return result
MetadataStore(cache, cache_key, url, result) ==
    [none |-> FALSE, result |-> result, contacted |-> TRUE, url |-> url,
     cache |-> DictSet(cache, cache_key, result)]

\* lines 111-142: the request and what comes of it; every exception (no
\* answer, an error status, a body that is no JSON, an "info" member that is
\* no object) ends in "return None" with the cache as it was
MetadataFetch(cache, cache_key, url, package_name, version, up) ==
    IF up.kind = "json" /\ up.mapping
    THEN MetadataStore(cache, cache_key, url,
                       MetadataResult(up.info, package_name, version))
    ELSE [none |-> TRUE, result |-> << >>, contacted |-> TRUE, url |-> url,
          cache |-> cache]

\* (a variant of MetadataKeyed that does not consult the cache)
MetadataAlwaysFetch(cache, cache_key, package_name, version, up) ==
    MetadataFetch(cache, cache_key, MetadataUrl(package_name, version),
                  package_name, version, up)

\* lines 107-109: the cache is consulted first
MetadataKeyed(cache, cache_key, package_name, version, up) ==
    IF cache_key \in DOMAIN cache
    THEN [none |-> FALSE, result |-> cache[cache_key], contacted |-> FALSE,
          url |-> << >>, cache |-> cache]
    ELSE MetadataFetch(cache, cache_key, MetadataUrl(package_name, version),
                       package_name, version, up)

\* get_real_package_metadata(package_name, version) with the cache as it is
\* and the upstream answering up: [none, result, contacted, url, cache]
get_real_package_metadata(cache, package_name, version, up) ==
    MetadataKeyed(cache, MetadataCacheKey(package_name, version),
                  package_name, version, up)

---------------------------------------------------------------------------
(* generate_metadata_file.                                                 *)

\* lines 160-162
HeaderLines(package_name, version) ==
    <<Chars("Metadata-Version: 2.1"),
      Chars("Name: ") \o Replace(Lower(package_name), "_", "-"),
      Chars("Version: ") \o version>>

\* "if real_meta.get(key): lines.append(f'{label}{value}')"
Field(label, value) ==
    IF value # << >> THEN <<Chars(label) \o value>> ELSE << >>

\* the same with an else branch that appends a default
FieldOr(label, value, default) ==
    <<Chars(label) \o (IF value # << >> THEN value ELSE default)>>

\* lines 180-185: a license of more than 100 characters is cut to the first
\* line of its first 100 characters
LicenseLines(license_text) ==
    IF license_text = << >> THEN << >>
    ELSE IF Len(license_text) > 100
    THEN <<Chars("License: ") \o SplitOn(SubSeq(license_text, 1, 100), "\n")[1]>>
    ELSE <<Chars("License: ") \o license_text>>

\* lines 196-197: at most 20 classifiers
ClassifierLines(classifiers) ==
    [i \in 1..(IF Len(classifiers) < 20 THEN Len(classifiers) ELSE 20) |->
        Chars("Classifier: ") \o classifiers[i]]

\* the characters of the class [\s\[\]<>=!;] of line 203
DepSplitChars == {" ", "\n", "\t", "[", "]", "<", ">", "=", "!", ";"}

\* re.split(r'[\s\[\]<>=!;]', dep)[0]: dep up to the first character of the
\* class
DepHead(dep) ==
    SubSeq(dep, 1,
           SetMin({i \in 1..Len(dep) : dep[i] \in DepSplitChars}
                  \cup {Len(dep) + 1}) - 1)

\* line 203: dep_name
DepName(dep) == Replace(Lower(DepHead(dep)), "_", "-")

\* line 205
KeepDep(dep) == DepName(dep) \notin DUMMY_PACKAGES

\* lines 201-206
RequiresLines(kept) ==
    [i \in 1..Len(kept) |-> Chars("Requires-Dist: ") \o kept[i]]
DepLines(requires_dist) == RequiresLines(SelectSeq(requires_dist, KeepDep))

\* lines 166-206: the upstream's record is at hand
RealLines(real_meta, package_name, include_real_deps) ==
    FieldOr("Summary: ", real_meta.summary, Chars("Dummy stub for ") \o package_name)
    \o Field("Home-page: ", real_meta.home_page)
    \o Field("Author: ", real_meta.author)
    \o Field("Author-email: ", real_meta.author_email)
    \o LicenseLines(real_meta.license.text)
    \o Field("Keywords: ", real_meta.keywords)
    \o FieldOr("Requires-Python: ", real_meta.requires_python, Chars(">=3.8"))
    \o ClassifierLines(real_meta.classifiers)
    \o (IF include_real_deps THEN DepLines(real_meta.requires_dist) ELSE << >>)

\* lines 209-217: it is not
FallbackLines(package_name) ==
    <<Chars("Summary: Dummy stub package for ") \o package_name,
      Chars("Home-page: https://pypi.org/project/") \o package_name \o <<"/">>,
      Chars("Author: PyPI Proxy"),
      Chars("Author-email: proxy@localhost"),
      Chars("License: MIT"),
      Chars("Requires-Python: >=3.8"),
      Chars("Classifier: Development Status :: 4 - Beta"),
      Chars("Classifier: Intended Audience :: Developers"),
      Chars("Classifier: Programming Language :: Python :: 3")>>

\* lines 220-236
BodyLines(package_name, version) ==
    <<Chars("Description-Content-Type: text/markdown"),
      << >>,
      Chars("# ") \o package_name,
      << >>,
      Chars("**This is a dummy stub package for ") \o <<Grave>> \o package_name
          \o <<Grave>> \o Chars(" version ") \o version \o Chars(".**"),
      << >>,
      Chars("Generated by PyPI Proxy to satisfy dependency requirements without"),
      Chars("downloading the full package (which may be very large)."),
      << >>,
      Chars("## Note"),
      << >>,
      Chars("This package provides minimal stubs. Importing it will raise an ImportError"),
      Chars("explaining that the real package is not installed.")>>

\* lines 157-238 for a license that is a str
MetadataText(real, package_name, version, include_real_deps) ==
    Join(<<"\n">>,
         HeaderLines(package_name, version)
         \o (IF real.none THEN FallbackLines(package_name)
             ELSE RealLines(real.result, package_name, include_real_deps))
         \o BodyLines(package_name, version))

\* lines 157-238, real being what get_real_package_metadata returned.  A
\* license that is a number makes len(license_text) of line 183 raise
GenerateFrom(real, package_name, version, include_real_deps) ==
    IF ~real.none /\ ~real.result.license.str
    THEN [raised |-> TRUE, text |-> << >>,
          contacted |-> real.contacted, cache |-> real.cache]
    ELSE [raised |-> FALSE,
          text |-> MetadataText(real, package_name, version, include_real_deps),
          contacted |-> real.contacted, cache |-> real.cache]

\* generate_metadata_file(package_name, version, include_real_deps) with the
\* cache as it is and the upstream answering up: [raised, text, contacted, cache]
generate_metadata_file(cache, package_name, version, include_real_deps, up) ==
    GenerateFrom(get_real_package_metadata(cache, package_name, version, up),
                 package_name, version, include_real_deps)

---------------------------------------------------------------------------
(* create_dummy_wheel.  files is the dict of line 265 in insertion order:  *)
(* a sequence of [path, content].  The archive is the sequence of its      *)
(* entries [path, bytes] in the order they were written.                   *)

\* line 261
WheelName(package_name) == Replace(Lower(package_name), "-", "_")

\* line 262
DistInfoName(package_name, version) ==
    WheelName(package_name) \o <<"-">> \o version \o Chars(".dist-info")

\* files[path] = content: an existing key keeps its place
FilesSet(files, path, content) ==
    IF \E i \in 1..Len(files) : files[i].path = path
    THEN [i \in 1..Len(files) |->
            IF files[i].path = path THEN [path |-> path, content |-> content]
            ELSE files[i]]
    ELSE Append(files, [path |-> path, content |-> content])

\* lines 268-306
init_content(package_name, version) ==
    Chars("# -*- coding: utf-8 -*-\n")
    \o Chars("\"\"\"\n")
    \o Chars("Dummy ") \o package_name \o Chars(" package - stub generated by PyPI Proxy.\n")
    \o Chars("\n")
    \o Chars("This is NOT the real ") \o package_name \o Chars(" package. It's a minimal stub\n")
    \o Chars("to satisfy dependency requirements without the full installation.\n")
    \o Chars("\"\"\"\n")
    \o Chars("\n")
    \o Chars("__version__ = \"") \o version \o Chars("\"\n")
    \o Chars("__author__ = \"PyPI Proxy (stub)\"\n")
    \o Chars("__all__ = [\"__version__\"]\n")
    \o Chars("\n")
    \o Chars("\n")
    \o Chars("class _StubModule:\n")
    \o Chars("    \"\"\"Stub that raises ImportError on any attribute access.\"\"\"\n")
    \o Chars("    \n")
    \o Chars("    def __init__(self, name):\n")
    \o Chars("        self._name = name\n")
    \o Chars("    \n")
    \o Chars("    def __getattr__(self, attr):\n")
    \o Chars("        raise ImportError(\n")
    \o Chars("            f\"Cannot import '{attr}' from dummy stub package '") \o package_name \o Chars("'. \"\n")
    \o Chars("            f\"The real '") \o package_name \o Chars("' package is not installed. \"\n")
    \o Chars("            f\"Install it with: pip install ") \o package_name \o Chars("\"\n")
    \o Chars("        )\n")
    \o Chars("    \n")
    \o Chars("    def __call__(self, *args, **kwargs):\n")
    \o Chars("        raise ImportError(\n")
    \o Chars("            f\"Cannot call dummy stub package '") \o package_name \o Chars("'. \"\n")
    \o Chars("            f\"The real '") \o package_name \o Chars("' package is not installed.\"\n")
    \o Chars("        )\n")
    \o Chars("\n")
    \o Chars("\n")
    \o Chars("# Make any submodule access fail gracefully with clear error\n")
    \o Chars("def __getattr__(name):\n")
    \o Chars("    if name.startswith('_'):\n")
    \o Chars("        raise AttributeError(name)\n")
    \o Chars("    return _StubModule(f\"") \o package_name \o Chars(".{name}\")\n")

\* lines 316-320
wheel_content ==
    Chars("Wheel-Version: 1.0\n")
    \o Chars("Generator: pypi-proxy (1.0.0)\n")
    \o Chars("Root-Is-Purelib: true\n")
    \o Chars("Tag: py3-none-any\n")

\* lines 332-335: json.dumps(..., indent=2) of names and versions that need
\* no escaping
direct_url_content(wheel_name, version) ==
    Chars("{\n")
    \o Chars("  \"url\": \"http://localhost:8080/packages/") \o wheel_name \o <<"-">>
        \o version \o Chars("-py3-none-any.whl\",\n")
    \o Chars("  \"archive_info\": {}\n")
    \o Chars("}")

\* lines 265-336: the six files
WheelFiles(package_name, version, wheel_name, dist_info_name, metadata_content) ==
    FilesSet(FilesSet(FilesSet(FilesSet(FilesSet(FilesSet(<< >>,
        wheel_name \o Chars("/__init__.py"), init_content(package_name, version)),
        dist_info_name \o Chars("/METADATA"), metadata_content),
        dist_info_name \o Chars("/WHEEL"), wheel_content),
        dist_info_name \o Chars("/top_level.txt"), wheel_name \o <<"\n">>),
        dist_info_name \o Chars("/INSTALLER"), Chars("uv\n")),
        dist_info_name \o Chars("/direct_url.json"),
        direct_url_content(wheel_name, version))

\* line 346 with the pair hashed that file_hash_record returned
RecordLineOf(filepath, hashed) ==
    filepath \o <<",">> \o hashed.hash_str \o <<",">> \o IntToStr(hashed.size)

\* (a variant of RecordLine that writes the length of the str)
RecordLineOfStr(filepath, content) ==
    RecordLineOf(filepath, [hash_str |-> file_hash_record(Encode(content)).hash_str,
                            size     |-> Len(content)])

\* lines 341-346: one line of RECORD
RecordLine(filepath, content) ==
    RecordLineOf(filepath, file_hash_record(Encode(content)))

\* lines 339-350
record_content(files, dist_info_name) ==
    Join(<<"\n">>,
         [i \in 1..Len(files) |-> RecordLine(files[i].path, files[i].content)]
         \o <<dist_info_name \o Chars("/RECORD,,")>>)
    \o <<"\n">>

\* line 351
WithRecord(files, dist_info_name) ==
    FilesSet(files, dist_info_name \o Chars("/RECORD"),
             record_content(files, dist_info_name))

\* lines 358-365: every file written to the archive, encoded
ZipOf(files) ==
    [i \in 1..Len(files) |->
        [path |-> files[i].path, bytes |-> Encode(files[i].content)]]

\* lines 257-389, generated being what generate_metadata_file came to: an
\* exception ends in "return None"
WheelFrom(generated, package_name, version) ==
    IF generated.raised
    THEN [none |-> TRUE, wheel |-> << >>,
          contacted |-> generated.contacted, cache |-> generated.cache]
    ELSE [none |-> FALSE,
          wheel |-> ZipOf(WithRecord(
                       WheelFiles(package_name, version, WheelName(package_name),
                                  DistInfoName(package_name, version),
                                  generated.text),
                       DistInfoName(package_name, version))),
          contacted |-> generated.contacted, cache |-> generated.cache]

\* create_dummy_wheel(package_name, version, include_deps) with the cache as
\* it is and the upstream answering up: [none, wheel, contacted, cache]
create_dummy_wheel(cache, package_name, version, include_deps, up) ==
    WheelFrom(generate_metadata_file(cache, package_name, version, include_deps, up),
              package_name, version)

---------------------------------------------------------------------------
(* PyPIProxyHandler.  A request is a method and a path; what the client    *)
(* gets is [answered, status, headers, body], answered FALSE when the      *)
(* handler raised before it sent anything (the connection is closed        *)
(* without a response).  A handler yields the response with the route      *)
(* taken, whether the request was forwarded, both caches as it leaves      *)
(* them, and log, what the resolver returned to it.                        *)

\* _extract_package_name returning None
NoName == <<"None">>

\* os.path.basename(path)
Basename(path) ==
    SubSeq(path, SetMax({0} \cup {i \in 1..Len(path) : path[i] = "/"}) + 1, Len(path))

\* path.split(sep)[1] when sep occurs in path: what stands between its first
\* and its second occurrence
AfterFirst(path, sep) == SubSeq(path, Find(path, sep) + Len(sep), Len(path))
UpToNext(rest, sep) ==
    IF Contains(rest, sep) THEN SubSeq(rest, 1, Find(rest, sep) - 1) ELSE rest
SecondPart(path, sep) == UpToNext(AfterFirst(path, sep), sep)

\* the class [a-zA-Z0-9_-] of line 485
FileNameChar(c) == IsAlnum(c) \/ c \in {"_", "-"}

\* re.match(r'^([a-zA-Z0-9_-]+)-\d', filename): the lengths the group may
\* have, a run of the class from the start that "-" and a digit follow
NameGroupEnds(filename) ==
    {k \in 1..(Len(filename) - 2) :
        /\ \A i \in 1..k : FileNameChar(filename[i])
        /\ filename[k + 1] = "-"
        /\ IsDigit(filename[k + 2])}

\* lines 483-488: the group is greedy, it takes the longest of them
PackagesName(filename) ==
    IF NameGroupEnds(filename) = {} THEN NoName
    ELSE Replace(Lower(SubSeq(filename, 1, SetMax(NameGroupEnds(filename)))),
                 "_", "-")

\* lines 476-489
_extract_package_name(path) ==
    IF Contains(path, Chars("/simple/"))
    THEN Replace(Lower(SplitOn(RStrip(SecondPart(path, Chars("/simple/")), "/"),
                               "/")[1]),
                 "_", "-")
    ELSE IF Contains(path, Chars("/packages/")) THEN PackagesName(Basename(path))
    ELSE NoName

\* "package_name and package_name in DUMMY_PACKAGES"
IsDummy(package_name) ==
    package_name # NoName /\ package_name # << >> /\ package_name \in DUMMY_PACKAGES

\* the branch do_GET and do_HEAD take (lines 435-448, 461-472)
Route(path) ==
    IF ~IsDummy(_extract_package_name(path)) THEN "proxy"
    ELSE IF Contains(path, Chars("/simple/")) THEN "simple"
    ELSE IF EndsWith(path, Chars(".whl")) \/ EndsWith(path, Chars(".tar.gz"))
    THEN "package"
    ELSE "proxy"

\* \w of the re module, within ASCII
IsWordChar(c) == IsAlnum(c) \/ c = "_"

\* the end of the longest run of \w of s that starts at position i
WordEnd(s, i) ==
    SetMax({j \in (i - 1)..Len(s) : \A k \in i..j : IsWordChar(s[k])})

\* "\.\d+" after position e of s: the position of its last digit, 0 when it
\* does not match (or e is 0)
DotDigits(s, e) ==
    IF e > 0 /\ e + 2 <= Len(s) /\ s[e + 1] = "." /\ IsDigit(s[e + 2])
    THEN DigitsEnd(s, e + 2) ELSE 0

\* "(?:\.\w+)?-" after position e of s: the position where the group of the
\* version ends, 0 when it does not match
VersionGroupEnd(s, e) ==
    IF e = 0 \/ e + 1 > Len(s) THEN 0
    ELSE IF /\ s[e + 1] = "."
            /\ WordEnd(s, e + 2) >= e + 2
            /\ WordEnd(s, e + 2) + 1 <= Len(s)
            /\ s[WordEnd(s, e + 2) + 1] = "-"
    THEN WordEnd(s, e + 2)
    ELSE IF s[e + 1] = "-" THEN e
    ELSE 0

\* r'-(\d+\.\d+\.\d+(?:\.\w+)?)-' matched at position i of s: where the
\* group ends, 0 when it does not match there
VersionMatchEnd(s, i) ==
    IF s[i] # "-" \/ i + 1 > Len(s) \/ ~IsDigit(s[i + 1]) THEN 0
    ELSE VersionGroupEnd(s, DotDigits(s, DotDigits(s, DigitsEnd(s, i + 1))))

\* lines 553-556: re.search takes the leftmost match; NoVersion when there
\* is none
VersionAt(filename, starts) ==
    IF starts = {} THEN NoVersion
    ELSE SubSeq(filename, SetMin(starts) + 1, VersionMatchEnd(filename, SetMin(starts)))
FilenameVersion(filename) ==
    VersionAt(filename, {i \in 1..Len(filename) : VersionMatchEnd(filename, i) > 0})

\* the long entries of BaseHTTPRequestHandler.responses for the codes of the
\* model
Explain(code) ==
    CASE code = 404 -> Chars("Nothing matches the given URI")
      [] code = 500 -> Chars("Server got itself in trouble")
      [] code = 502 -> Chars("Invalid responses from another server/proxy")
      [] code = 503 -> Chars("The server cannot process the request due to a high load")

\* DEFAULT_ERROR_MESSAGE of http.server, filled in (the messages of the
\* model hold no character that html.escape changes)
ErrorPage(code, message) ==
    Chars("<!DOCTYPE HTML>\n")
    \o Chars("<html lang=\"en\">\n")
    \o Chars("    <head>\n")
    \o Chars("        <meta charset=\"utf-8\">\n")
    \o Chars("        <title>Error response</title>\n")
    \o Chars("    </head>\n")
    \o Chars("    <body>\n")
    \o Chars("        <h1>Error response</h1>\n")
    \o Chars("        <p>Error code: ") \o IntToStr(code) \o Chars("</p>\n")
    \o Chars("        <p>Message: ") \o message \o Chars(".</p>\n")
    \o Chars("        <p>Error code explanation: ") \o IntToStr(code)
        \o Chars(" - ") \o Explain(code) \o Chars(".</p>\n")
    \o Chars("    </body>\n")
    \o Chars("</html>\n")

\* send_error(code, message) with the page encoded: the body is not written
\* to a HEAD request
SendErrorPage(method, code, page) ==
    [answered |-> TRUE,
     status   |-> code,
     headers  |-> <<<<Chars("Connection"), Chars("close")>>,
                    <<Chars("Content-Type"), Chars("text/html;charset=utf-8")>>,
                    <<Chars("Content-Length"), IntToStr(Len(page))>>>>,
     body     |-> IF method = "HEAD" THEN << >> ELSE page]
send_error(method, code, message) ==
    SendErrorPage(method, code, Encode(ErrorPage(code, message)))

\* the handler raised before send_response: nothing is sent
NoResponse == [answered |-> FALSE, status |-> 0, headers |-> << >>, body |-> << >>]

\* what a handler yields
Handled(route, forwarded, response, vcache, mcache, log) ==
    [route |-> route, forwarded |-> forwarded, response |-> response,
     vcache |-> vcache, mcache |-> mcache, log |-> log]

\* what the resolver returned to the handler, for the history
LogOf(package_name, r) ==
    IF r.raised THEN << >>
    ELSE <<[key   |-> VersionCacheKey(package_name, << >>),
            value |-> r.result,
            path  |-> r.path]>>

\* (a variant of OlderVersions that asks minor > 0 for both)
OlderVersionsLoose(v) ==
    IF minor(v) > 0
    THEN <<IntToStr(major(v)) \o <<".">> \o IntToStr(minor(v) - 1) \o Chars(".0"),
           IntToStr(major(v)) \o <<".">> \o IntToStr(minor(v) - 2) \o Chars(".0")>>
    ELSE << >>

\* lines 508-513
OlderVersions(v) ==
    (IF minor(v) > 0
     THEN <<IntToStr(major(v)) \o <<".">> \o IntToStr(minor(v) - 1) \o Chars(".0")>>
     ELSE << >>)
    \o (IF minor(v) > 1
        THEN <<IntToStr(major(v)) \o <<".">> \o IntToStr(minor(v) - 2) \o Chars(".0")>>
        ELSE << >>)

\* lines 505-515, parsed being Version(version): when it raises, the list
\* stays as it is
VersionsWith(version, parsed) ==
    <<version>> \o (IF parsed.ok THEN OlderVersions(parsed.v) ELSE << >>)
versions_to_serve(version) == VersionsWith(version, Version(version))

\* lines 519-522
SimpleLink(fname) ==
    Chars("    <a href=\"/packages/") \o fname
    \o Chars("\" data-requires-python=\"&gt;=3.8\">") \o fname \o Chars("</a><br/>")
SimpleLinks(wheel_name, versions) ==
    [i \in 1..Len(versions) |->
        SimpleLink(wheel_name \o <<"-">> \o versions[i] \o Chars("-py3-none-any.whl"))]

\* lines 524-535
SimpleHtml(package_name, links) ==
    Chars("<!DOCTYPE html>\n")
    \o Chars("<html>\n")
    \o Chars("  <head>\n")
    \o Chars("    <meta charset=\"utf-8\">\n")
    \o Chars("    <title>Links for ") \o package_name \o Chars("</title>\n")
    \o Chars("  </head>\n")
    \o Chars("  <body>\n")
    \o Chars("    <h1>Links for ") \o package_name \o Chars("</h1>\n")
    \o Join(<<"\n">>, links) \o <<"\n">>
    \o Chars("  </body>\n")
    \o Chars("</html>\n")

\* lines 537-543
SimpleResponse(content) ==
    [answered |-> TRUE,
     status   |-> 200,
     headers  |-> <<<<Chars("Content-Type"), Chars("text/html; charset=utf-8")>>,
                    <<Chars("Content-Length"), IntToStr(Len(content))>>,
                    <<Chars("Cache-Control"), Chars("no-cache")>>>>,
     body     |-> content]

\* lines 501-543 with the version resolved
SimplePage(package_name, version) ==
    SimpleResponse(Encode(SimpleHtml(package_name,
        SimpleLinks(Replace(package_name, "-", "_"), versions_to_serve(version)))))

\* lines 493-543, r being what find_compatible_version came to (every
\* directive of DUMMY_PACKAGES is 'auto'): an exception of the resolver
\* leaves the handler before anything is sent
SimpleFrom(r, package_name, mcache) ==
    Handled("simple", FALSE,
            IF r.raised THEN NoResponse ELSE SimplePage(package_name, r.result),
            r.cache, mcache, LogOf(package_name, r))

\* _serve_dummy_simple_page(package_name)
_serve_dummy_simple_page(vcache, mcache, package_name, upv) ==
    SimpleFrom(find_compatible_version(vcache, package_name, << >>, upv),
               package_name, mcache)

\* lines 569-579, built being what create_dummy_wheel came to.  The
\* Content-Length of the archive depends on its compression and is left out
PackageResponse(built, filename) ==
    IF built.none THEN send_error("GET", 500, Chars("Failed to build dummy package"))
    ELSE [answered |-> TRUE,
          status   |-> 200,
          headers  |-> <<<<Chars("Content-Type"), Chars("application/zip")>>,
                         <<Chars("Content-Disposition"),
                           Chars("attachment; filename=\"") \o filename \o <<"\"">>>>,
                         <<Chars("Cache-Control"), Chars("no-cache")>>>>,
          body     |-> built.wheel]

\* lines 564-580
PackageBuilt(built, filename, vcache, log) ==
    Handled("package", FALSE, PackageResponse(built, filename), vcache,
            built.cache, log)

\* lines 557-580: the filename holds no version, r is what the resolver came to
PackageResolved(r, mcache, filename, package_name, upm) ==
    IF r.raised
    THEN Handled("package", FALSE, NoResponse, r.cache, mcache, << >>)
    ELSE PackageBuilt(create_dummy_wheel(mcache, package_name, r.result, FALSE, upm),
                      filename, r.cache, LogOf(package_name, r))

\* (a variant of PackageWith that builds '99.0.0' when the filename holds no
\* version, without asking the resolver)
PackageWithFallback(version, vcache, mcache, filename, package_name, upv, upm) ==
    PackageBuilt(create_dummy_wheel(mcache, package_name,
                                    IF version # NoVersion THEN version
                                    ELSE FallbackVersion,
                                    FALSE, upm),
                 filename, vcache, << >>)

\* lines 549-580 with the version of the filename, if any
PackageWith(version, vcache, mcache, filename, package_name, upv, upm) ==
    IF version # NoVersion
    THEN PackageBuilt(create_dummy_wheel(mcache, package_name, version, FALSE, upm),
                      filename, vcache, << >>)
    ELSE PackageResolved(find_compatible_version(vcache, package_name, << >>, upv),
                         mcache, filename, package_name, upm)

\* _serve_dummy_package(package_name)
_serve_dummy_package(vcache, mcache, path, package_name, upv, upm) ==
    PackageWith(FilenameVersion(Basename(path)), vcache, mcache, Basename(path),
                package_name, upv, upm)

\* lines 589-591, 609-611: the headers of the upstream's response that are
\* passed on
DroppedHeaders == {Chars("transfer-encoding"), Chars("connection")}
KeepHeader(header) == Lower(header[1]) \notin DroppedHeaders
PassedHeaders(headers) == SelectSeq(headers, KeepHeader)

\* lines 599-617 and 583-596.  upp is what urlopen comes to: a reply
\* [status, reason, headers, body] of the upstream, which urlopen returns as
\* a response when the status is 2xx and raises as HTTPError otherwise, or
\* no reply at all, [kind |-> "unreachable", text |-> str(e)].  A HEAD reply
\* has no body
ProxyResponse(method, upp) ==
    IF upp.kind = "unreachable"
    THEN send_error(method, 502, Chars("Proxy error: ") \o upp.text)
    ELSE IF upp.status \in 200..299
    THEN [answered |-> TRUE,
          status   |-> upp.status,
          headers  |-> PassedHeaders(upp.headers),
          body     |-> IF method = "HEAD" THEN << >> ELSE upp.body]
    ELSE send_error(method, upp.status, upp.reason)

\* _proxy_request() and _proxy_request_head()
_proxy_request(method, vcache, mcache, upp) ==
    Handled("proxy", TRUE, ProxyResponse(method, upp), vcache, mcache, << >>)

\* lines 437-444: what do_HEAD sends for a substituted package
HeadSimple ==
    [answered |-> TRUE, status |-> 200,
     headers |-> <<<<Chars("Content-Type"), Chars("text/html; charset=utf-8")>>>>,
     body |-> << >>]
HeadPackage ==
    [answered |-> TRUE, status |-> 200,
     headers |-> <<<<Chars("Content-Type"), Chars("application/octet-stream")>>,
                   <<Chars("Content-Length"), Chars("10000")>>>>,
     body |-> << >>]

\* do_HEAD with the name extracted
HeadNamed(vcache, mcache, path, package_name, upp) ==
    IF IsDummy(package_name)
    THEN IF Contains(path, Chars("/simple/"))
         THEN Handled("simple", FALSE, HeadSimple, vcache, mcache, << >>)
         ELSE IF EndsWith(path, Chars(".whl")) \/ EndsWith(path, Chars(".tar.gz"))
         THEN Handled("package", FALSE, HeadPackage, vcache, mcache, << >>)
         ELSE _proxy_request("HEAD", vcache, mcache, upp)
    ELSE _proxy_request("HEAD", vcache, mcache, upp)

\* do_HEAD
do_HEAD(vcache, mcache, path, upp) ==
    HeadNamed(vcache, mcache, path, _extract_package_name(path), upp)

\* do_GET with the name extracted
GetNamed(vcache, mcache, path, package_name, upv, upm, upp) ==
    IF IsDummy(package_name)
    THEN IF Contains(path, Chars("/simple/"))
         THEN _serve_dummy_simple_page(vcache, mcache, package_name, upv)
         ELSE IF EndsWith(path, Chars(".whl")) \/ EndsWith(path, Chars(".tar.gz"))
         THEN _serve_dummy_package(vcache, mcache, path, package_name, upv, upm)
         ELSE _proxy_request("GET", vcache, mcache, upp)
    ELSE _proxy_request("GET", vcache, mcache, upp)

\* do_GET
do_GET(vcache, mcache, path, upv, upm, upp) ==
    GetNamed(vcache, mcache, path, _extract_package_name(path), upv, upm, upp)

---------------------------------------------------------------------------
(* The inputs of the model.                                                *)

\* version strings an upstream response may advertise: two final releases
\* whose numeric and textual orders differ, a pre-release of the later one
\* in a spelling that is not normalized, a pre-release above both, a legacy
\* identifier that does not parse
ReleaseStrings ==
    {Chars("2.9.0"), Chars("2.10.0"), Chars("2.10.0RC1"), Chars("3.0.0rc1"),
     Chars("junk")}

ReleaseLists == SeqsUpTo(ReleaseStrings, MaxReleases)

\* what a request for /pypi/<name>/json may come to: an error, a document
\* with a "releases" object, a document whose "releases" is null
UpstreamInfo ==
    {[kind |-> "error"], [kind |-> "json", mapping |-> FALSE]}
    \cup {[kind |-> "json", mapping |-> TRUE, releases |-> q] : q \in ReleaseLists}

\* constraint strings: absent, wildcard, an upper bound, a lower bound that
\* names a pre-release, two clauses, and two malformed ones
Constraints ==
    {Chars(""), Chars("*"), Chars("<3.0"), Chars(">=2.10.0rc1"),
     Chars(">=2.9,!=2.10.0"), Chars("junk"), Chars(">=")}

ResolverNames == {Chars("torch"), Chars("torchvision")}

\* requirement strings of an upstream requires_dist: a package that is not
\* substituted, and substituted ones with extras and with the operator ~=
DepStrings ==
    {Chars("numpy>=1.0"), Chars("Torch[opt]>=2.0"), Chars("torch~=2.0")}

DepLists == SeqsUpTo(DepStrings, MaxDeps)

\* the "info" object of an upstream document: every member present
InfoFull(requires_dist) ==
    [name            |-> Chars("torch"),
     version         |-> Chars("2.1.0"),
     summary         |-> Chars("Tensors"),
     home_page       |-> Chars("https://pytorch.org"),
     author          |-> Chars("José"),
     author_email    |-> Chars("dev@pytorch.org"),
     license         |-> [str |-> TRUE, text |-> Chars("BSD-3-Clause")],
     requires_python |-> Chars(">=3.9"),
     requires_dist   |-> [null |-> FALSE, list |-> requires_dist],
     classifiers     |-> [null |-> FALSE,
                          list |-> <<Chars("Programming Language :: Python :: 3")>>],
     keywords        |-> Chars("tensor"),
     description     |-> Chars("Tensors and networks"),
     description_content_type |-> Chars("text/x-rst")]

\* ... few members, a license text of 106 characters in two lines, and null
\* for the lists
InfoLongLicense ==
    [name          |-> Chars("torch"),
     license       |-> [str |-> TRUE,
                        text |-> Chars("Apache-2.0\n") \o [i \in 1..95 |-> "x"]],
     requires_dist |-> [null |-> TRUE],
     classifiers   |-> [null |-> TRUE]]

\* ... a license text of 18 characters in two lines
InfoShortLicense ==
    [name    |-> Chars("torch"),
     license |-> [str |-> TRUE, text |-> Chars("MIT\nCopyright 2020")]]

\* ... a license that is a JSON number
InfoNumberLicense ==
    [name |-> Chars("torch"), license |-> [str |-> FALSE]]

\* what a request for /pypi/<name>[/<version>]/json may come to: an error, a
\* document whose "info" is no object, a document with an "info" object
UpstreamMeta ==
    {[kind |-> "error"], [kind |-> "json", mapping |-> FALSE]}
    \cup {[kind |-> "json", mapping |-> TRUE, info |-> info] :
            info \in {InfoLongLicense, InfoShortLicense, InfoNumberLicense}
                     \cup {InfoFull(q) : q \in DepLists}}

BuilderNames == {Chars("torch"), Chars("Py-Torch")}

\* the version argument of the builder's functions
BuilderVersion == Chars("2.1.0")

\* request paths: the index page of a substituted package (spelled in two
\* ways) and of another package; under /packages/, a wheel of a substituted
\* package with and without a three-part version, its source archive, a
\* file of it with another suffix, a wheel of another package; a path with
\* no package name
RequestPaths ==
    {Chars("/simple/torch/"),
     Chars("/simple/TorchVision"),
     Chars("/simple/numpy/"),
     Chars("/packages/torch-2.1.0-py3-none-any.whl"),
     Chars("/packages/torch-2.1-py3-none-any.whl"),
     Chars("/packages/torch-2.1.0.tar.gz"),
     Chars("/packages/torch-2.1.0.zip"),
     Chars("/packages/numpy-1.26.0-py3-none-any.whl"),
     Chars("/pypi/torch/json")}

\* what /pypi/<name>/json may come to while the server resolves a version:
\* versions with minor 10, 2, 1 and, through the fallback, 0; of two, three
\* and five segments; final, pre-, post- and development releases
IndexInfo ==
    {[kind |-> "error"], [kind |-> "json", mapping |-> FALSE]}
    \cup {[kind |-> "json", mapping |-> TRUE, releases |-> q] :
            q \in {<<Chars("2.10.0"), Chars("3.0.0rc1")>>,
                   <<Chars("2.1.0")>>,
                   <<Chars("3.0.0rc1")>>,
                   <<Chars("1.2"), Chars("3")>>,
                   <<Chars("1.2")>>,
                   <<Chars("2.1.0.post1")>>,
                   <<Chars("2.1.0.dev1")>>,
                   <<Chars("1.2.3.4.5")>>,
                   <<Chars("junk")>>}}

\* what /pypi/<name>/<version>/json may come to while the server builds
ArtifactMeta ==
    {[kind |-> "error"],
     [kind |-> "json", mapping |-> TRUE, info |-> InfoFull(<<Chars("numpy>=1.0")>>)],
     [kind |-> "json", mapping |-> TRUE, info |-> InfoNumberLicense]}

UpstreamHeaders ==
    <<<<Chars("Content-Type"), Chars("text/html")>>,
      <<Chars("Transfer-Encoding"), Chars("chunked")>>>>

\* what the upstream may answer to a forwarded request: a page, two errors
\* with a body of their own, nothing
UpstreamReplies ==
    {[kind |-> "reply", status |-> 200, reason |-> Chars("OK"),
      headers |-> UpstreamHeaders, body |-> Encode(Chars("<html>links</html>"))],
     [kind |-> "reply", status |-> 404, reason |-> Chars("Not Found"),
      headers |-> UpstreamHeaders, body |-> Encode(Chars("404 Not Found"))],
     [kind |-> "reply", status |-> 503, reason |-> Chars("Service Unavailable"),
      headers |-> UpstreamHeaders, body |-> Encode(Chars("try later"))],
     [kind |-> "unreachable", text |-> Chars("timed out")]}

---------------------------------------------------------------------------
(* The process: its state after start-up, a call returning to its caller,  *)
(* and the resolver called with any name, any constraint and any upstream  *)
(* outcome.                                                                *)

Idle == [op |-> "idle"]

\* the requests, by the order of their numbers only; one that was not sent
Handlers == 1..MaxHandlers
NotSent == [pc |-> "absent"]

Init ==
    /\ VERSION_CACHE = Empty
    /\ METADATA_CACHE = Empty
    /\ ret = Idle
    /\ returned = << >>
    /\ listed = {}
    /\ handler = [h \in Handlers |-> NotSent]
    /\ calls = 0

\* the call in progress returns; the process is ready for the next one
Return ==
    /\ ret # Idle
    /\ ret' = Idle
    /\ UNCHANGED <<VERSION_CACHE, METADATA_CACHE, returned, listed, handler, calls>>

\* no upstream outcome is drawn for a call that makes no request
Unused == [kind |-> "unused"]

\* the upstream outcomes a resolver call may meet: drawn only when the call
\* contacts the upstream
OutcomesFor(cache_key) ==
    IF cache_key \in DOMAIN VERSION_CACHE THEN {Unused} ELSE UpstreamInfo

\* the same for the server's requests to /pypi/<name>/json
OutcomesForIndex(cache_key) ==
    IF cache_key \in DOMAIN VERSION_CACHE THEN {Unused} ELSE IndexInfo

\* the history of the resolver's returns, with this call's (a call that
\* raises returns nothing)
Remember(cache_key, r) ==
    IF r.raised THEN returned
    ELSE Append(returned, [key |-> cache_key, value |-> r.result, path |-> r.path])

\* one call of find_compatible_version(package_name, specifier_str)
Resolve(package_name, specifier_str) ==
    /\ ret = Idle
    /\ calls < MaxCalls
    /\ \E up \in OutcomesFor(VersionCacheKey(package_name, specifier_str)) :
       \E r \in {find_compatible_version(VERSION_CACHE, package_name,
                                         specifier_str, up)} :
          /\ VERSION_CACHE' = r.cache
          /\ ret' = [op |-> "find_compatible_version",
                     package_name |-> package_name,
                     specifier_str |-> specifier_str,
                     contacted |-> r.contacted,
                     up |-> up,
                     raised |-> r.raised,
                     path |-> r.path,
                     result |-> r.result]
          /\ returned' = Remember(VersionCacheKey(package_name, specifier_str), r)
    /\ calls' = calls + 1
    /\ UNCHANGED <<METADATA_CACHE, listed, handler>>

\* the upstream outcomes a metadata fetch may meet: drawn only when the call
\* contacts the upstream
MetaOutcomesFor(cache_key) ==
    IF cache_key \in DOMAIN METADATA_CACHE THEN {Unused} ELSE UpstreamMeta

\* one call of get_real_package_metadata(package_name, version)
GetMetadata(package_name, version) ==
    /\ ret = Idle
    /\ calls < MaxCalls
    /\ \E up \in MetaOutcomesFor(MetadataCacheKey(package_name, version)) :
       \E r \in {get_real_package_metadata(METADATA_CACHE, package_name,
                                           version, up)} :
          /\ METADATA_CACHE' = r.cache
          /\ ret' = [op |-> "get_real_package_metadata",
                     package_name |-> package_name,
                     version |-> version,
                     up |-> up,
                     contacted |-> r.contacted,
                     url |-> r.url,
                     none |-> r.none,
                     result |-> r.result]
    /\ calls' = calls + 1
    /\ UNCHANGED <<VERSION_CACHE, returned, listed, handler>>

\* one call of generate_metadata_file(package_name, version, include_real_deps)
GenerateMetadata(package_name, version, include_real_deps) ==
    /\ ret = Idle
    /\ calls < MaxCalls
    /\ \E up \in MetaOutcomesFor(MetadataCacheKey(package_name, version)) :
       \E r \in {generate_metadata_file(METADATA_CACHE, package_name, version,
                                        include_real_deps, up)} :
          /\ METADATA_CACHE' = r.cache
          /\ ret' = [op |-> "generate_metadata_file",
                     package_name |-> package_name,
                     version |-> version,
                     include_real_deps |-> include_real_deps,
                     up |-> up,
                     contacted |-> r.contacted,
                     raised |-> r.raised,
                     text |-> r.text]
    /\ calls' = calls + 1
    /\ UNCHANGED <<VERSION_CACHE, returned, listed, handler>>

\* one call of create_dummy_wheel(package_name, version, include_deps)
CreateWheel(package_name, version, include_deps) ==
    /\ ret = Idle
    /\ calls < MaxCalls
    /\ \E up \in MetaOutcomesFor(MetadataCacheKey(package_name, version)) :
       \E r \in {create_dummy_wheel(METADATA_CACHE, package_name, version,
                                    include_deps, up)} :
          /\ METADATA_CACHE' = r.cache
          /\ ret' = [op |-> "create_dummy_wheel",
                     package_name |-> package_name,
                     version |-> version,
                     include_deps |-> include_deps,
                     up |-> up,
                     contacted |-> r.contacted,
                     none |-> r.none,
                     wheel |-> r.wheel]
    /\ calls' = calls + 1
    /\ UNCHANGED <<VERSION_CACHE, returned, listed, handler>>

\* the outcomes a request may meet at each of the upstream's three services
InfoOutcomesFor(path) ==
    IF \/ Route(path) = "simple"
       \/ Route(path) = "package" /\ FilenameVersion(Basename(path)) = NoVersion
    THEN OutcomesForIndex(VersionCacheKey(_extract_package_name(path), << >>))
    ELSE {Unused}
MetaOutcomes(path) == IF Route(path) = "package" THEN ArtifactMeta ELSE {Unused}
ProxyOutcomes(path) == IF Route(path) = "proxy" THEN UpstreamReplies ELSE {Unused}

\* the text of ASCII bytes
DecodeAscii(bytes) ==
    [i \in 1..Len(bytes) |-> IF bytes[i] = 10 THEN "\n" ELSE AsciiChars[bytes[i] - 31]]

\* the lines of a page that hold a link
LinkStart == Chars("    <a href=\"/packages/")
IsLinkLine(line) == StartsWith(line, LinkStart)
LinkLines(body) == SelectSeq(SplitOn(DecodeAscii(body), "\n"), IsLinkLine)

\* the path a link line points to: what stands between href=" and the next "
HrefOf(line) ==
    UpToNext(AfterFirst(line, Chars("href=\"")), <<"\"">>)

\* the links of an index page served for package_name, as the client reads
\* them from the body
LinksOf(package_name, links) ==
    {[package_name |-> package_name, path |-> HrefOf(links[i])] :
        i \in 1..Len(links)}

\* the history of links, with those of this request
ListedWith(package_name, h) ==
    IF h.route = "simple" /\ h.response.answered /\ h.response.status = 200
    THEN listed \cup LinksOf(package_name, LinkLines(h.response.body))
    ELSE listed

\* one GET request served
GetRequest(path) ==
    /\ ret = Idle
    /\ calls < MaxCalls
    /\ \E upv \in InfoOutcomesFor(path), upm \in MetaOutcomes(path),
          upp \in ProxyOutcomes(path) :
       \E h \in {do_GET(VERSION_CACHE, METADATA_CACHE, path, upv, upm, upp)} :
          /\ VERSION_CACHE' = h.vcache
          /\ METADATA_CACHE' = h.mcache
          /\ returned' = returned \o h.log
          /\ listed' = ListedWith(_extract_package_name(path), h)
          /\ UNCHANGED handler
          /\ ret' = [op |-> "do_GET",
                     method |-> "GET",
                     path |-> path,
                     package_name |-> _extract_package_name(path),
                     route |-> h.route,
                     forwarded |-> h.forwarded,
                     up |-> upp,
                     resolved |-> h.log,
                     response |-> h.response]
    /\ calls' = calls + 1

\* one HEAD request served
HeadRequest(path) ==
    /\ ret = Idle
    /\ calls < MaxCalls
    /\ \E upp \in ProxyOutcomes(path) :
       \E h \in {do_HEAD(VERSION_CACHE, METADATA_CACHE, path, upp)} :
          /\ VERSION_CACHE' = h.vcache
          /\ METADATA_CACHE' = h.mcache
          /\ returned' = returned \o h.log
          /\ ret' = [op |-> "do_HEAD",
                     method |-> "HEAD",
                     path |-> path,
                     package_name |-> _extract_package_name(path),
                     route |-> h.route,
                     forwarded |-> h.forwarded,
                     up |-> upp,
                     resolved |-> h.log,
                     response |-> h.response]
    /\ calls' = calls + 1
    /\ UNCHANGED <<listed, handler>>

NextResolver ==
    \/ \E package_name \in ResolverNames, specifier_str \in Constraints :
          Resolve(package_name, specifier_str)
    \/ Return

SpecResolver == Init /\ [][NextResolver]_vars

NextBuilder ==
    \/ \E package_name \in BuilderNames, version \in {NoVersion, BuilderVersion} :
          GetMetadata(package_name, version)
    \/ \E package_name \in BuilderNames, include_real_deps \in BOOLEAN :
          GenerateMetadata(package_name, BuilderVersion, include_real_deps)
    \/ \E package_name \in BuilderNames, include_deps \in BOOLEAN :
          CreateWheel(package_name, BuilderVersion, include_deps)
    \/ Return

SpecBuilder == Init /\ [][NextBuilder]_vars

\* the server: any request, one after the other
Next ==
    \/ \E path \in RequestPaths : GetRequest(path)
    \/ \E path \in RequestPaths : HeadRequest(path)
    \/ Return

Spec == Init /\ [][Next]_vars

---------------------------------------------------------------------------
(* Properties of the resolver, checked under SpecResolver.                 *)

\* the state just after a resolver call
AfterResolve == ret.op = "find_compatible_version"

\* ... a call that missed the cache and found a document with releases
ResolvedFromReleases ==
    /\ AfterResolve
    /\ ret.contacted
    /\ ret.up.kind = "json"
    /\ ret.up.mapping

\* the versions among the strings advertised that parse
ParseableOf(versions) ==
    {Version(versions[i]).v : i \in {j \in 1..Len(versions) : Version(versions[j]).ok}}

\* the spellings of the highest versions of a set under the version ordering
HighestOf(S) == {VersionStr(v) : v \in {w \in S : \A u \in S : VersionCmp(w, u) >= 0}}

\* the first of the sets tiers that is not empty
FirstNonEmpty(tiers) == tiers[SetMin({k \in 1..Len(tiers) : tiers[k] # {}})]

\* C1: every resolver call, whatever the name, the constraint and the
\* upstream outcome, returns a non-empty version string and raises nothing.
C1_NeverFails ==
    AfterResolve => (~ret.raised /\ ret.result # << >>)

\* the "releases" member of the document was null: line 56 raised
C1_RaisedToCaller ==
    AfterResolve /\ ret.raised /\ ret.up = [kind |-> "json", mapping |-> FALSE]

\* C2: with an empty constraint and at least one parseable version
\* advertised, the resolver returns the highest version that is no
\* pre-release, or the highest version overall when all are pre-releases;
\* the strings that do not parse play no part.
C2Expected(P) ==
    HighestOf(FirstNonEmpty(<<{v \in P : ~is_prerelease(v)}, P>>))
C2_LatestStable ==
    (/\ ResolvedFromReleases
     /\ ret.specifier_str = << >>
     /\ ParseableOf(ret.up.releases) # {})
    => ret.result \in C2Expected(ParseableOf(ret.up.releases))

\* a pre-release stands above the final release that is returned
C2_Witness ==
    /\ ResolvedFromReleases
    /\ ret.specifier_str = << >>
    /\ ret.up.releases = <<Chars("3.0.0rc1"), Chars("2.10.0")>>
    /\ ret.result = Chars("2.10.0")

\* C3: with a constraint, the resolver returns the highest final release
\* that satisfies it; failing that, the highest version that satisfies it
\* with pre-releases allowed; failing that, the highest version overall.
C3Expected(P, spec) ==
    HighestOf(FirstNonEmpty(
        <<{v \in P : SpecContains(spec, v, TRUE) /\ ~is_prerelease(v)},
          {v \in P : SpecContains(spec, v, TRUE)},
          P>>))
C3_ThreeTiers ==
    (/\ ResolvedFromReleases
     /\ ret.specifier_str \notin {<< >>, <<"*">>}
     /\ SpecifierSet(ret.specifier_str).ok
     /\ ParseableOf(ret.up.releases) # {})
    => ret.result \in C3Expected(ParseableOf(ret.up.releases),
                                 SpecifierSet(ret.specifier_str))

\* the only versions that satisfy "<3.0" are pre-releases, and the resolver
\* returned a version that does not satisfy it
C3_Witness ==
    /\ ResolvedFromReleases
    /\ ret.specifier_str = Chars("<3.0")
    /\ ret.up.releases = <<Chars("2.10.0RC1"), Chars("3.0.0rc1")>>
    /\ ret.path = "tier3"
    /\ ret.result = Chars("3.0.0rc1")

\* the calls that produced returned[i] and returned[j] had the same key
SameKey(i, j) == returned[i].key = returned[j].key

\* C10: once the resolver has returned a value for (name, constraint), every
\* later call with that name and constraint returns the same value, the
\* fallback version included.
C10_Memoized ==
    \A i, j \in 1..Len(returned) :
        (i < j /\ SameKey(i, j)) => returned[j].value = returned[i].value

\* the paths of the resolver that compute a version from the releases
ComputedPaths == {"latest_stable", "latest_any", "tier1", "tier2", "tier3"}

\* C10 amended: once the resolver has returned a value it computed from the
\* upstream's releases, or read from the cache, every later call with that
\* name and constraint returns the same value; a fallback version (fetch
\* failure, no releases, none parseable, malformed constraint) is not kept.
C10_MemoizedWhenComputed ==
    \A i, j \in 1..Len(returned) :
        (/\ i < j
         /\ SameKey(i, j)
         /\ returned[i].path \in ComputedPaths \cup {"cached"})
        => (returned[j].value = returned[i].value /\ returned[j].path = "cached")

\* a computed version returned again while the upstream has changed: the
\* second call drew nothing from the upstream
C10_Witness ==
    /\ Len(returned) = 2
    /\ SameKey(1, 2)
    /\ returned[1].path = "tier1"
    /\ returned[2].path = "cached"
    /\ returned[2].value = returned[1].value

---------------------------------------------------------------------------
(* Properties of the builder, checked under SpecBuilder.                   *)

\* the state just after generate_metadata_file returned a document
AfterGenerate == ret.op = "generate_metadata_file" /\ ~ret.raised

\* the name a requirement string begins with (PEP 508): after leading
\* blanks, the longest run of letters, digits, ".", "_" and "-"
NameChar(c) == IsAlnum(c) \/ c \in {".", "_", "-"}
NameEnd(req) ==
    SetMin({i \in 1..Len(req) : ~NameChar(req[i])} \cup {Len(req) + 1}) - 1
RequirementName(req) == SubSeq(Strip(req), 1, NameEnd(Strip(req)))

\* lowercase, underscore to hyphen
CanonicalName(name) == Replace(Lower(name), "_", "-")

\* the requirement strings of the Requires-Dist lines of a document
RequiresDistOf(lines) ==
    {SubSeq(lines[i], Len("Requires-Dist: ") + 1, Len(lines[i])) :
        i \in {j \in 1..Len(lines) : StartsWith(lines[j], Chars("Requires-Dist: "))}}

\* C4: the document generate_metadata_file produces has no Requires-Dist
\* line whose package name canonicalizes to a key of DUMMY_PACKAGES,
\* whatever follows the name in the requirement string.
C4_NoDummyRequires ==
    AfterGenerate =>
        \A req \in RequiresDistOf(SplitOn(ret.text, "\n")) :
            CanonicalName(RequirementName(req)) \notin DUMMY_PACKAGES

\* the requirement torch~=2.0 of the upstream is in the document
C4_Witness ==
    /\ AfterGenerate
    /\ ret.include_real_deps
    /\ Chars("torch~=2.0") \in RequiresDistOf(SplitOn(ret.text, "\n"))

\* the state just after create_dummy_wheel returned an archive
AfterWheel == ret.op = "create_dummy_wheel" /\ ~ret.none

ManifestPath(path) == EndsWith(path, Chars(".dist-info/RECORD"))

\* the line of the manifest for an entry of the archive: its path, the
\* unpadded base64 of the sha256 digest of the bytes stored, their number
ExpectedRecordLine(entry) ==
    Encode(entry.path \o Chars(",sha256=")
           \o SubSeq(UrlsafeB64(Sha256(entry.bytes)), 1, 3)
           \o <<",">> \o IntToStr(Len(entry.bytes)))

\* lines being the lines of the last entry of the archive
RecordMatches(wheel, lines) ==
    /\ ManifestPath(wheel[Len(wheel)].path)
    /\ \A i \in 1..(Len(wheel) - 1) : ~ManifestPath(wheel[i].path)
    /\ \A i, j \in 1..Len(wheel) : i # j => wheel[i].path # wheel[j].path
    /\ Len(lines) = Len(wheel) + 1
    /\ lines[Len(lines)] = << >>
    /\ {lines[i] : i \in 1..(Len(wheel) - 1)}
         = {ExpectedRecordLine(wheel[i]) : i \in 1..(Len(wheel) - 1)}
    /\ lines[Len(wheel)] = Encode(wheel[Len(wheel)].path \o Chars(",,"))

\* C8: in every archive create_dummy_wheel returns, RECORD is the last
\* entry; its lines are one per other entry, with the sha256 digest and the
\* length of the bytes stored for it, and then its own line, with an empty
\* hash and an empty length.
C8_RecordListsArchive ==
    AfterWheel =>
        RecordMatches(ret.wheel, SplitOn(ret.wheel[Len(ret.wheel)].bytes, 10))

\* an archive whose METADATA holds a character of two bytes
C8_Witness ==
    /\ AfterWheel
    /\ Len(ret.wheel) = 7
    /\ ret.contacted
    /\ ret.up.kind = "json"
    /\ ret.up.mapping
    /\ "author" \in DOMAIN ret.up.info
    /\ "é" \in Range(ret.up.info.author)

\* a call of get_real_package_metadata, from the state before it to the
\* state after it
MetadataCall(cache_key) ==
    IF cache_key \in DOMAIN METADATA_CACHE
    THEN /\ ~ret'.contacted
         /\ ~ret'.none
         /\ ret'.result = METADATA_CACHE[cache_key]
         /\ METADATA_CACHE' = METADATA_CACHE
    ELSE /\ ret'.contacted
         /\ ret'.up.kind = "error" => ret'.none
         /\ ret'.none => METADATA_CACHE' = METADATA_CACHE
         /\ ~ret'.none =>
               METADATA_CACHE' = DictSet(METADATA_CACHE, cache_key, ret'.result)

\* C9: a call of get_real_package_metadata whose fetch fails returns None
\* and leaves METADATA_CACHE as it was, so the key is fetched again; a call
\* that returns a record stores it; a call for a stored key returns the
\* stored record without contacting the upstream; no step changes or
\* removes a stored entry.
C9_MetadataCache ==
    [][/\ \A key \in DOMAIN METADATA_CACHE :
             /\ key \in DOMAIN METADATA_CACHE'
             /\ METADATA_CACHE'[key] = METADATA_CACHE[key]
       /\ ret'.op = "get_real_package_metadata" =>
             MetadataCall(MetadataCacheKey(ret'.package_name, ret'.version))
      ]_vars

\* the second call for a key found the record of the first in the cache
C9_Witness ==
    /\ ret.op = "get_real_package_metadata"
    /\ calls = 2
    /\ ~ret.contacted
    /\ ~ret.none
    /\ MetadataCacheKey(ret.package_name, ret.version) \in DOMAIN METADATA_CACHE
    /\ ret.result = METADATA_CACHE[MetadataCacheKey(ret.package_name, ret.version)]

---------------------------------------------------------------------------
(* Properties of the server, checked under Spec.                           *)

\* the state just after a request was served
AfterRequest == ret.op \in {"do_GET", "do_HEAD"}

\* a path of the shape /packages/<filename>
PackagesPath(path) ==
    /\ StartsWith(path, Chars("/packages/"))
    /\ Basename(path) # << >>
    /\ path = Chars("/packages/") \o Basename(path)

\* C5: a GET or HEAD request for /packages/<filename> whose recovered name
\* is substituted is answered by the server itself, with 200 and a stub
\* (500 when the build failed), and is not forwarded; a request whose
\* recovered name is absent or not substituted is forwarded.
C5_SubstitutedServedLocally ==
    AfterRequest =>
        /\ (PackagesPath(ret.path) /\ IsDummy(ret.package_name)) =>
              /\ ~ret.forwarded
              /\ ret.route = "package"
              /\ ret.response.answered
              /\ ret.response.status \in {200, 500}
        /\ ~IsDummy(ret.package_name) => ret.forwarded

\* a file of a substituted package was asked from the upstream
C5_Witness ==
    /\ AfterRequest
    /\ ret.path = Chars("/packages/torch-2.1.0.zip")
    /\ ret.package_name = Chars("torch")
    /\ ret.forwarded

\* what the upstream's reply holds for the client: a reply to HEAD has no body
UpstreamBody == IF ret.method = "HEAD" THEN << >> ELSE ret.up.body

\* C6: a forwarded request is answered with the status and the body of the
\* upstream's reply, be it a success or an error; the client gets 502 only
\* when the upstream gave no reply.
C6_PassThroughFidelity ==
    (AfterRequest /\ ret.forwarded) =>
        /\ ret.response.answered
        /\ ret.up.kind = "reply" =>
              (ret.response.status = ret.up.status /\ ret.response.body = UpstreamBody)
        /\ ret.up.kind = "unreachable" => ret.response.status = 502
        /\ ret.response.status = 502 =>
              (ret.up.kind = "unreachable" \/ ret.up.status = 502)

\* the upstream replied 404 with a body, the client got 404 with another
C6_Witness ==
    /\ AfterRequest
    /\ ret.forwarded
    /\ ret.method = "GET"
    /\ ret.up.kind = "reply"
    /\ ret.up.status = 404
    /\ ret.response.status = 404
    /\ ret.response.body # ret.up.body

\* the state just after an index page was served
AfterIndex ==
    /\ ret.op = "do_GET"
    /\ ret.route = "simple"
    /\ ret.response.answered
    /\ ret.response.status = 200

\* the version of the file a link line names: what stands between
\* <wheel_name>- and -py3-none-any.whl"
LinkedVersion(line, wheel_name) ==
    SubSeq(line, Len(LinkStart) + Len(wheel_name) + 2,
           Find(line, Chars("-py3-none-any.whl\"")) - 1)
ListedVersions(links, wheel_name) ==
    [i \in 1..Len(links) |-> LinkedVersion(links[i], wheel_name)]

\* <major>.<minor-k>.0 when minor-k >= 0
Preceding(v, k) ==
    IF minor(v) - k >= 0
    THEN <<IntToStr(major(v)) \o <<".">> \o IntToStr(minor(v) - k) \o Chars(".0")>>
    ELSE << >>

\* versions being the versions of the links of the page, version the one the
\* resolver returned
ListingMatches(versions, version) ==
    /\ Len(versions) \in 1..3
    /\ Version(version).ok
    /\ versions = <<version>> \o Preceding(Version(version).v, 1)
                            \o Preceding(Version(version).v, 2)
    /\ \A i \in 1..Len(versions) :
          Version(versions[i]).ok /\ "-" \notin Range(versions[i])

\* C7: the index page of a substituted package links one to three files:
\* the resolved version, then <major>.<minor-k>.0 for k = 1 and k = 2
\* exactly when minor-k >= 0; every version listed parses and none has a
\* negative component.
C7_IndexListing ==
    AfterIndex =>
        ListingMatches(ListedVersions(LinkLines(ret.response.body),
                                      Replace(ret.package_name, "-", "_")),
                       ret.resolved[1].value)

\* the page for version 2.1.0: two links, 2.1.0 and 2.0.0
C7_Witness ==
    /\ AfterIndex
    /\ ret.resolved[1].value = Chars("2.1.0")
    /\ ListedVersions(LinkLines(ret.response.body),
                      Replace(ret.package_name, "-", "_"))
         = <<Chars("2.1.0"), Chars("2.0.0")>>

---------------------------------------------------------------------------
(* _extract_package_name on its own, checked under SpecExtract.            *)

\* the directories, names and tails the paths are made of
ExtractDirs == {Chars("/packages/"), Chars("/packages/ab/cd/"), Chars("/files/")}
ExtractNames == {Chars("torch"), Chars("Torch_Vision"), Chars("numpy")}
ExtractTails ==
    {Chars("-2.1.0-py3-none-any.whl"),
     Chars("-2.1.0-1-py3-none-any.whl"),
     Chars("-2-1-py3-none-any.whl"),
     Chars("-2.1.0.tar.gz"),
     Chars("-2.tar.gz"),
     Chars("-latest.whl"),
     Chars(".whl")}

\* self.path: files in a directory, index pages, and other paths
ExtractPaths ==
    {d \o n \o t : d \in ExtractDirs, n \in ExtractNames, t \in ExtractTails}
    \cup {Chars("/simple/") \o n \o t :
            n \in ExtractNames, t \in {<< >>, Chars("/"), Chars("/index.html")}}
    \cup {Chars("/"), Chars("/simple/"), Chars("/packages/"), Chars("/pypi/torch/json")}

\* one call of self._extract_package_name(path)
ExtractName(path) ==
    /\ ret = Idle
    /\ calls < MaxCalls
    /\ ret' = [op |-> "_extract_package_name",
               path |-> path,
               package_name |-> _extract_package_name(path)]
    /\ calls' = calls + 1
    /\ UNCHANGED <<VERSION_CACHE, METADATA_CACHE, returned, listed, handler>>

NextExtract ==
    \/ \E path \in ExtractPaths : ExtractName(path)
    \/ Return

SpecExtract == Init /\ [][NextExtract]_vars

\* the state just after a call of _extract_package_name
AfterExtract == ret.op = "_extract_package_name"

\* the path has the index shape, the artifact shape
IndexShape(path) == Contains(path, Chars("/simple/"))
ArtifactShape(path) == ~IndexShape(path) /\ Contains(path, Chars("/packages/"))

\* the places of a filename where "-" stands before a digit
VersionRuns(filename) ==
    {i \in 2..(Len(filename) - 1) : filename[i] = "-" /\ IsDigit(filename[i + 1])}

\* the name before the first of them, canonical; none without one
NameBeforeFirstRun(filename) ==
    IF VersionRuns(filename) = {} THEN NoName
    ELSE Replace(Lower(SubSeq(filename, 1, SetMin(VersionRuns(filename)) - 1)),
                 "_", "-")

\* C12: for a path of the artifact shape, _extract_package_name returns the
\* canonical form of what stands in the filename before the first "-" that
\* a digit follows, a further "-<digit>" segment after the version (a build
\* tag) notwithstanding; for a path of neither shape it returns None.
C12_NameBeforeVersion ==
    AfterExtract =>
        /\ ArtifactShape(ret.path) =>
              ret.package_name = NameBeforeFirstRun(Basename(ret.path))
        /\ (~ArtifactShape(ret.path) /\ ~IndexShape(ret.path)) =>
              ret.package_name = NoName

\* version 2 with build tag 1: the name returned holds the version
C12_Witness ==
    /\ AfterExtract
    /\ ret.path = Chars("/packages/torch-2-1-py3-none-any.whl")
    /\ ret.package_name = Chars("torch-2")

---------------------------------------------------------------------------
(* The License header, checked under SpecBuilder.                          *)

\* the state just after generate_metadata_file wrote a license the upstream
\* gave as a text
AfterLicense ==
    /\ AfterGenerate
    /\ ~ret.raised
    /\ ret.up.kind = "json"
    /\ ret.up.mapping
    /\ "license" \in DOMAIN ret.up.info
    /\ ret.up.info.license.str
    /\ ret.up.info.license.text # << >>

\* the first line of a text, cut at a length
FirstLineCut(text, bound) ==
    SubSeq(SplitOn(text, "\n")[1], 1,
           SetMin({bound, Len(SplitOn(text, "\n")[1])}))

\* the places of the License header among the lines of a document
LicenseAt(lines) ==
    {i \in 1..Len(lines) : StartsWith(lines[i], Chars("License: "))}

\* the header that follows the license in the document
IsNextHeader(line) ==
    StartsWith(line, Chars("Keywords: ")) \/ StartsWith(line, Chars("Requires-Python: "))

\* the License header of the lines is one line, holds the first line of
\* license_text cut at 100 characters, and the next header follows it
OneLicenseLine(lines, license_text) ==
    /\ Cardinality(LicenseAt(lines)) = 1
    /\ \A i \in LicenseAt(lines) :
          /\ lines[i] = Chars("License: ") \o FirstLineCut(license_text, 100)
          /\ Len(lines[i]) <= Len(Chars("License: ")) + 100
          /\ i < Len(lines)
          /\ IsNextHeader(lines[i + 1])

\* C13: whatever license text the upstream gives, the License header of the
\* document is a single line of at most 100 characters: the first line of
\* the text, whether the text is longer than 100 characters or not.
C13_LicenseOneLine ==
    AfterLicense => OneLicenseLine(SplitOn(ret.text, "\n"), ret.up.info.license.text)

\* a license of two short lines: its second line is a line of the headers
C13_Witness ==
    /\ AfterLicense
    /\ ret.up.info.license.text = Chars("MIT\nCopyright 2020")
    /\ \E i \in 1..Len(SplitOn(ret.text, "\n")) :
          SplitOn(ret.text, "\n")[i] = Chars("Copyright 2020")

---------------------------------------------------------------------------
(* A client that reads index pages and follows their links, checked under  *)
(* SpecFollow.                                                             *)

\* the index pages asked for
IndexPaths == {Chars("/simple/torch/"), Chars("/simple/TorchVision")}

\* an index page is asked for, or a link of a page served before is followed
NextFollow ==
    \/ \E path \in IndexPaths : GetRequest(path)
    \/ \E link \in listed : GetRequest(link.path)
    \/ Return

SpecFollow == Init /\ [][NextFollow]_vars

\* the links listed before that the request just served has followed
Followed == {link \in listed : ret.op = "do_GET" /\ link.path = ret.path}

\* the version a link's filename holds: what stands between <wheel_name>-
\* and -py3-none-any.whl
EmbeddedVersion(filename, wheel_name) ==
    SubSeq(filename, Len(wheel_name) + 2,
           Len(filename) - Len(Chars("-py3-none-any.whl")))

\* the lines of a file of an archive
FileLines(wheel, path) ==
    SplitOn(wheel[CHOOSE i \in 1..Len(wheel) : wheel[i].path = path].bytes, 10)

\* the archive is one of wheel_name at version: its dist-info directory is
\* <wheel_name>-<version>.dist-info, and the METADATA in it says Version: <version>
ArchiveOf(wheel, wheel_name, version) ==
    /\ \A i \in 1..Len(wheel) :
          \/ StartsWith(wheel[i].path, wheel_name \o <<"/">>)
          \/ StartsWith(wheel[i].path,
                        wheel_name \o <<"-">> \o version \o Chars(".dist-info/"))
    /\ \E i \in 1..Len(wheel) :
          wheel[i].path = wheel_name \o <<"-">> \o version \o Chars(".dist-info/METADATA")
    /\ {line \in Range(FileLines(wheel, wheel_name \o <<"-">> \o version
                                          \o Chars(".dist-info/METADATA"))) :
           StartsWith(line, Encode(Chars("Version: ")))}
         = {Encode(Chars("Version: ") \o version)}

\* the request that followed link was served by the server itself, for the
\* package the page was of
ServedAsListed(link) ==
    /\ ret.package_name = link.package_name
    /\ ret.route = "package"
    /\ ~ret.forwarded
    /\ ret.response.answered

\* the archive sent, if one was, is of the version the link names
AgreesWith(link) ==
    ret.response.status = 200 =>
        ArchiveOf(ret.response.body, Replace(link.package_name, "-", "_"),
                  EmbeddedVersion(Basename(link.path),
                                  Replace(link.package_name, "-", "_")))

\* C14 as stated: every link an index page of package p has listed, when
\* followed later in the same process, is served for p with an archive
\* built at the version the link's filename holds.
C14_LinkYieldsArchive ==
    \A link \in Followed :
        /\ ServedAsListed(link)
        /\ ret.response.status = 200
        /\ AgreesWith(link)

\* C14: every link an index page of package p has listed, when followed
\* later in the same process, is served by the server for p; the answer is
\* 200 with an archive or 500 when the build failed, and an archive sent is
\* of the version the link's filename holds (METADATA Version and dist-info
\* directory), for every shape of resolved version.
C14_ListingAndDownloadAgree ==
    \A link \in Followed :
        /\ ServedAsListed(link)
        /\ ret.response.status \in {200, 500}
        /\ AgreesWith(link)

\* a link whose version the filename pattern of the download does not
\* match was followed, and the archive came
C14_Witness ==
    \E link \in Followed :
        /\ link.path = Chars("/packages/torch-3.0.0rc1-py3-none-any.whl")
        /\ FilenameVersion(Basename(link.path)) = NoVersion
        /\ ret.response.status = 200
        /\ AgreesWith(link)

---------------------------------------------------------------------------
(* The server and the requests sent to it while it runs, each followed     *)
(* through get_real_package_metadata statement by statement; checked under *)
(* SpecServe.                                                              *)

\* the (name, version) pairs the requests are for
ServeKeys == {<<Chars("torch"), Chars("2.1.0")>>, <<Chars("torch"), Chars("2.0.0")>>}

\* what /pypi/<name>/<version>/json may come to, differently at each request
ServeMeta ==
    {[kind |-> "error"],
     [kind |-> "json", mapping |-> TRUE, info |-> InfoFull(<< >>)],
     [kind |-> "json", mapping |-> TRUE, info |-> InfoShortLicense]}

\* where a handler stands: its request waits for the server ("queued"), or
\* the handler runs and is at line 107, 117 or 137, or after the call
Running == {"lookup", "fetch", "store", "return"}

\* line 622, HTTPServer(server_address, PyPIProxyHandler): serve_forever
\* takes a request, runs its handler to the end in the thread that called
\* it, and only then takes the next
ServerThreaded == TRUE
ServerFree == \A h \in Handlers : handler[h].pc \notin Running

\* a client sends a request for a file of package_name at version
Arrive(h, package_name, version) ==
    /\ handler[h] = NotSent
    /\ handler' = [handler EXCEPT ![h] =
                     [pc           |-> "queued",
                      package_name |-> package_name,
                      version      |-> version,
                      cache_key    |-> MetadataCacheKey(package_name, version)]]
    /\ UNCHANGED <<VERSION_CACHE, METADATA_CACHE, ret, returned, listed, calls>>

\* the server takes the request up: its handler runs up to the call of
\* get_real_package_metadata(package_name, version)
Begin(h) ==
    /\ handler[h].pc = "queued"
    /\ ServerFree
    /\ handler' = [handler EXCEPT ![h].pc = "lookup"]
    /\ UNCHANGED <<VERSION_CACHE, METADATA_CACHE, ret, returned, listed, calls>>

\* what line 108-109 make of the handler: with the entry of the cache, or on
\* to the request
AfterLookup(hd, cache) ==
    IF hd.cache_key \in DOMAIN cache
    THEN [pc |-> "return", package_name |-> hd.package_name,
          version |-> hd.version, cache_key |-> hd.cache_key,
          contacted |-> FALSE, stored |-> FALSE,
          none |-> FALSE, result |-> cache[hd.cache_key]]
    ELSE [pc |-> "fetch", package_name |-> hd.package_name,
          version |-> hd.version, cache_key |-> hd.cache_key]

\* lines 107-109
Lookup(h) ==
    /\ handler[h].pc = "lookup"
    /\ handler' = [handler EXCEPT ![h] = AfterLookup(handler[h], METADATA_CACHE)]
    /\ UNCHANGED <<VERSION_CACHE, METADATA_CACHE, ret, returned, listed, calls>>

\* what lines 111-135 and 140-142 make of the handler, the upstream
\* answering up: the record is built, or None is returned
AfterFetch(hd, up) ==
    IF up.kind = "json" /\ up.mapping
    THEN [pc |-> "store", package_name |-> hd.package_name,
          version |-> hd.version, cache_key |-> hd.cache_key, up |-> up,
          result |-> MetadataResult(up.info, hd.package_name, hd.version)]
    ELSE [pc |-> "return", package_name |-> hd.package_name,
          version |-> hd.version, cache_key |-> hd.cache_key, up |-> up,
          contacted |-> TRUE, stored |-> FALSE, none |-> TRUE, result |-> << >>]

\* lines 111-135, 140-142
Fetch(h) ==
    /\ handler[h].pc = "fetch"
    /\ \E up \in ServeMeta : handler' = [handler EXCEPT ![h] = AfterFetch(handler[h], up)]
    /\ UNCHANGED <<VERSION_CACHE, METADATA_CACHE, ret, returned, listed, calls>>

\* lines 137-138
Store(h) ==
    /\ handler[h].pc = "store"
    /\ METADATA_CACHE' = DictSet(METADATA_CACHE, handler[h].cache_key, handler[h].result)
    /\ handler' = [handler EXCEPT ![h] =
                     [pc |-> "return", package_name |-> handler[h].package_name,
                      version |-> handler[h].version,
                      cache_key |-> handler[h].cache_key, up |-> handler[h].up,
                      contacted |-> TRUE, stored |-> TRUE,
                      none |-> FALSE, result |-> handler[h].result]]
    /\ UNCHANGED <<VERSION_CACHE, ret, returned, listed, calls>>

\* the handler goes on with what the call returned, answers and ends
Finish(h) ==
    /\ handler[h].pc = "return"
    /\ handler' = [handler EXCEPT ![h].pc = "served"]
    /\ UNCHANGED <<VERSION_CACHE, METADATA_CACHE, ret, returned, listed, calls>>

NextServe ==
    \/ \E h \in Handlers, key \in ServeKeys : Arrive(h, key[1], key[2])
    \/ \E h \in Handlers : Begin(h)
    \/ \E h \in Handlers : Lookup(h)
    \/ \E h \in Handlers : Fetch(h)
    \/ \E h \in Handlers : Store(h)
    \/ \E h \in Handlers : Finish(h)

SpecServe == Init /\ [][NextServe]_vars

---------------------------------------------------------------------------
(* Properties of simultaneous requests, checked under SpecServe.           *)

\* two requests for the same key are with the server at once: the handler
\* of first has found the key missing and has not stored yet, second has
\* been sent and not answered
Simultaneous(first, second) ==
    /\ first # second
    /\ handler[first].pc \in {"fetch", "store"}
    /\ handler[second].pc \in {"queued", "lookup", "fetch", "store"}
    /\ handler[second].cache_key = handler[first].cache_key

\* the call of get_real_package_metadata in handler h has returned
HasReturned(h) == handler[h].pc \in {"return", "served"}

\* the handlers for cache_key that the upstream has served a document
ServedBy(cache_key) ==
    {h \in Handlers : /\ handler[h].pc \in {"store", "return", "served"}
                      /\ handler[h].cache_key = cache_key
                      /\ "up" \in DOMAIN handler[h]
                      /\ handler[h].up.kind = "json"}

\* the handlers that have stored under cache_key
StoredBy(cache_key) ==
    {h \in Handlers : /\ HasReturned(h)
                      /\ handler[h].cache_key = cache_key
                      /\ handler[h].stored}

\* what handler h got is None after a request of its own that failed, or
\* the whole record of a document the upstream has served for its key
CompleteOrFailed(h) ==
    IF handler[h].none
    THEN handler[h].contacted /\ handler[h].up.kind # "json"
    ELSE \E g \in ServedBy(handler[h].cache_key) :
            handler[h].result = MetadataResult(handler[g].up.info,
                                               handler[h].package_name,
                                               handler[h].version)

\* the cache holds entries for the keys stored under and no others, each a
\* record that a handler stored
CacheConsistent ==
    /\ \A h \in Handlers :
          (HasReturned(h) /\ handler[h].stored) =>
              handler[h].cache_key \in DOMAIN METADATA_CACHE
    /\ \A cache_key \in DOMAIN METADATA_CACHE :
          \E h \in StoredBy(cache_key) : METADATA_CACHE[cache_key] = handler[h].result

=============================================================================
